---- MODULE Spec2Model ----
(***************************************************************************)
(* Model of the quarterly metric derivation of get_metrics.py              *)
(* (extract_quarterly_data), of the second producer of forward_return in   *)
(* get_data.py (process_batch_data) and of the pool-and-filter stage of    *)
(* correlations.py (extract_roa_forward_return_pairs).                     *)
(*                                                                         *)
(* Python values are records: None is [tag |-> "null"], a number is an     *)
(* exact rational [tag |-> "num", n, d] in lowest terms with d > 0, a      *)
(* non-numeric JSON value is [tag |-> "str"].  The float power             *)
(* x ** (1.0 / years) with years = q / 4.0 is exact when q divides 4; for  *)
(* the other q the annualized result is kept symbolically as               *)
(* [tag |-> "root", n, d, q], standing for ((n/d) ^ (4/q) - 1) * 100.      *)
(* Arithmetic is over exact rationals: float rounding is not modelled.     *)
(* Python indices are 0-based; At(arr, j) reads arr[j].                    *)
(***************************************************************************)
EXTENDS Integers, Sequences, FiniteSets, TLC

VARIABLES
    period_dates,       \* data[date_key]: the period identifiers
    prices,             \* data["period_end_price"]
    dividends,          \* data["dividends"]
    roa,                \* data["roa"]
    operating_income,   \* data["operating_income"]
    ppe_net,            \* data["ppe_net"]
    revenue,            \* data["revenue"]
    cost_of_goods_sold, \* data["cost_of_goods_sold"]
    enterprise_value,   \* data["enterprise_value"]
    quarterly_data,     \* extract_quarterly_data's list of entries
    batch_quarterly,    \* process_batch_data's list of entries
    pool_data,          \* the entries extract_roa_forward_return_pairs walks
    roa_values,         \* its first result list
    forward_return_values, \* its second result list
    pool_i,             \* number of stocks of pool_data already walked
    roa_ranks,          \* calculate_correlations: ranks of roa_values
    forward_return_ranks, \* calculate_correlations: ranks of the returns
    report,             \* calculate_correlations: the dict it returns
    stocks,             \* calculate_metrics_for_all_stocks: its argument
    results,            \* calculate_metrics_for_all_stocks: records kept
    stats,              \* calculate_metrics_for_all_stocks: its counters
    stock_i,            \* number of records of stocks already visited
    saved,              \* input and output of an earlier call
    run,                \* number of the call of extract_quarterly_data
    raised,             \* the exception that left the function, if any
    metrics_json,       \* what save_metrics_to_json wrote to metrics.json
    data_json,          \* what get_data.save_to_json wrote to data.json
    pc                  \* position in the pipeline

vars == <<period_dates, prices, dividends, roa, operating_income, ppe_net,
          revenue, cost_of_goods_sold, enterprise_value, quarterly_data,
          batch_quarterly, pool_data, roa_values, forward_return_values,
          pool_i, roa_ranks, forward_return_ranks, report, stocks, results,
          stats, stock_i, saved, run, raised, metrics_json, data_json, pc>>

inputs == <<period_dates, prices, dividends, roa, operating_income, ppe_net,
            revenue, cost_of_goods_sold, enterprise_value>>

poolvars == <<pool_data, roa_values, forward_return_values, pool_i>>

corrvars == <<roa_ranks, forward_return_ranks, report>>

allvars == <<stocks, results, stats, stock_i>>

runvars == <<saved, run>>

savevars == <<metrics_json, data_json>>

others == <<corrvars, allvars, runvars, raised, savevars>>

(***************************************************************************)
(* Values and exact arithmetic.                                            *)
(***************************************************************************)
Null == [tag |-> "null"]

Str == [tag |-> "str"]

Abs(i) == IF i < 0 THEN -i ELSE i

RECURSIVE GCD(_, _)
GCD(a, b) == IF b = 0 THEN a ELSE GCD(b, a % b)

\* The rational a/b (b # 0) in lowest terms with a positive denominator.
Rat(a, b) ==
    LET g == GCD(Abs(a), Abs(b))
        s == IF b < 0 THEN -1 ELSE 1
    IN  [tag |-> "num", n |-> s * (a \div g), d |-> s * (b \div g)]

Num(i) == [tag |-> "num", n |-> i, d |-> 1]

Add(x, y) == Rat(x.n * y.d + y.n * x.d, x.d * y.d)

Sub(x, y) == Rat(x.n * y.d - y.n * x.d, x.d * y.d)

Mul(x, y) == Rat(x.n * y.n, x.d * y.d)

Div(x, y) == Rat(x.n * y.d, x.d * y.n)

IsZero(x) == x.n = 0

Gt0(x) == x.n > 0

RECURSIVE IntPow(_, _)
IntPow(x, e) == IF e = 0 THEN Num(1) ELSE Mul(x, IntPow(x, e - 1))

\* `v is None`
IsNone(v) == v.tag = "null"

\* isinstance(v, (int, float))
IsNumeric(v) == v.tag = "num" \/ (v.tag = "root" /\ v.n >= 0)

\* arr[j] for a 0-based index j
At(arr, j) == arr[j + 1]

(***************************************************************************)
(* get_metrics.extract_quarterly_data: the per-quarter entries.            *)
(***************************************************************************)
\* prices[j] if j < len(prices) and prices[j] is not None else 0.0
CurrentPrice(j) ==
    IF j < Len(prices) /\ ~IsNone(At(prices, j)) THEN At(prices, j) ELSE Num(0)

\* dividends[j] if j < len(dividends) and dividends[j] is not None else 0.0
CurrentDividend(j) ==
    IF j < Len(dividends) /\ ~IsNone(At(dividends, j))
    THEN At(dividends, j) ELSE Num(0)

\* roa[j] if j < len(roa) and roa[j] is not None else None
CurrentRoa(j) ==
    IF j < Len(roa) /\ ~IsNone(At(roa, j)) THEN At(roa, j) ELSE Null

\* The guarded quotient of the four point-in-time ratios: both operands in
\* range and not None, the denominator not 0.
EbitPpe(j) ==
    IF j < Len(operating_income) /\ j < Len(ppe_net)
       /\ ~IsNone(At(operating_income, j)) /\ ~IsNone(At(ppe_net, j))
       /\ ~IsZero(At(ppe_net, j))
    THEN Div(At(operating_income, j), At(ppe_net, j))
    ELSE Null

GrossMargin(j) ==
    IF j < Len(revenue) /\ j < Len(cost_of_goods_sold)
       /\ ~IsNone(At(revenue, j)) /\ ~IsNone(At(cost_of_goods_sold, j))
       /\ ~IsZero(At(revenue, j))
    THEN Div(Sub(At(revenue, j), At(cost_of_goods_sold, j)), At(revenue, j))
    ELSE Null

OperatingMargin(j) ==
    IF j < Len(operating_income) /\ j < Len(revenue)
       /\ ~IsNone(At(operating_income, j)) /\ ~IsNone(At(revenue, j))
       /\ ~IsZero(At(revenue, j))
    THEN Div(At(operating_income, j), At(revenue, j))
    ELSE Null

\* Faulty variant: a negative enterprise value is not reported
EvEbitPositiveOnly(j) ==
    IF j < Len(enterprise_value) /\ j < Len(operating_income)
       /\ ~IsNone(At(enterprise_value, j)) /\ ~IsNone(At(operating_income, j))
       /\ ~IsZero(At(operating_income, j)) /\ Gt0(At(enterprise_value, j))
    THEN Div(At(enterprise_value, j), At(operating_income, j))
    ELSE Null

EvEbit(j) ==
    IF j < Len(enterprise_value) /\ j < Len(operating_income)
       /\ ~IsNone(At(enterprise_value, j)) /\ ~IsNone(At(operating_income, j))
       /\ ~IsZero(At(operating_income, j))
    THEN Div(At(enterprise_value, j), At(operating_income, j))
    ELSE Null

\* Faulty variant: the return taken relative to the ending price
ReturnFormulaOverCurrent(prev_price, current_price, current_dividend) ==
    Mul(Div(Add(Sub(current_price, prev_price), current_dividend),
            current_price), Num(100))

\* Faulty variant: the dividend is taken off the price change
ReturnFormulaLessDividend(prev_price, current_price, current_dividend) ==
    Mul(Div(Sub(Sub(current_price, prev_price), current_dividend), prev_price),
        Num(100))

\* ((current_price - prev_price + current_dividend) / prev_price) * 100
ReturnFormula(prev_price, current_price, current_dividend) ==
    Mul(Div(Add(Sub(current_price, prev_price), current_dividend), prev_price),
        Num(100))

\* Faulty variant: only the previous price is checked for positivity
TotalReturnPrevOnly(j) ==
    IF j > 0 /\ j - 1 < Len(prices)
    THEN LET prev_price == IF ~IsNone(At(prices, j - 1))
                           THEN At(prices, j - 1) ELSE Num(0)
         IN  IF Gt0(prev_price)
             THEN ReturnFormula(prev_price, CurrentPrice(j), CurrentDividend(j))
             ELSE Null
    ELSE Null

\* total_return of quarter j
TotalReturn(j) ==
    IF j > 0 /\ j - 1 < Len(prices)
    THEN LET prev_price == IF ~IsNone(At(prices, j - 1))
                           THEN At(prices, j - 1) ELSE Num(0)
         IN  IF Gt0(prev_price) /\ Gt0(CurrentPrice(j))
             THEN ReturnFormula(prev_price, CurrentPrice(j), CurrentDividend(j))
             ELSE Null
    ELSE Null

\* The dict appended for quarter j
QuarterEntry(j) ==
    [period           |-> At(period_dates, j),
     price            |-> CurrentPrice(j),
     dividends        |-> CurrentDividend(j),
     roa              |-> CurrentRoa(j),
     ebit_ppe         |-> EbitPpe(j),
     gross_margin     |-> GrossMargin(j),
     operating_margin |-> OperatingMargin(j),
     ev_ebit          |-> EvEbit(j),
     total_return     |-> TotalReturn(j)]

(***************************************************************************)
(* get_metrics.extract_quarterly_data: the forward-return walks.           *)
(***************************************************************************)
\* forward_return_periods
Quarters1y == 4

Quarters3y == 12

Quarters5y == 20

Quarters10y == 40

\* Faulty variant: returns added up instead of compounded
CompoundSimple(cumulative_value, period_return) ==
    Add(cumulative_value, period_return)

\* cumulative_value * (1 + float(period_return) / 100.0)
Compound(cumulative_value, period_return) ==
    Mul(cumulative_value, Add(Num(1), Div(period_return, Num(100))))

\* Faulty variant: a missing total_return ends the walk but leaves
\* valid_returns set
RECURSIVE WalkBreakStaysValid(_, _, _, _)
WalkBreakStaysValid(qd, k, last, w) ==
    IF k > last \/ ~w.valid_returns
    THEN w
    ELSE IF k >= Len(qd)
    THEN [w EXCEPT !.valid_returns = FALSE]
    ELSE LET period_return == At(qd, k).total_return
         IN  IF ~IsNone(period_return) /\ IsNumeric(period_return)
             THEN WalkBreakStaysValid(qd, k + 1, last,
                     [w EXCEPT !.cumulative_value = Compound(@, period_return),
                               !.num_quarters = @ + 1])
             ELSE w

\* Faulty variant: a missing total_return is skipped instead of ending the walk
RECURSIVE WalkSkipMissing(_, _, _, _)
WalkSkipMissing(qd, k, last, w) ==
    IF k > last \/ ~w.valid_returns
    THEN w
    ELSE IF k >= Len(qd)
    THEN [w EXCEPT !.valid_returns = FALSE]
    ELSE LET period_return == At(qd, k).total_return
         IN  IF ~IsNone(period_return) /\ IsNumeric(period_return)
             THEN WalkSkipMissing(qd, k + 1, last,
                     [w EXCEPT !.cumulative_value = Compound(@, period_return),
                               !.num_quarters = @ + 1])
             ELSE WalkSkipMissing(qd, k + 1, last, w)

\* The locals of a walk before its loop: cumulative_value = 100.0,
\* valid_returns = True, num_quarters = 0
WalkStart ==
    [cumulative_value |-> Num(100), valid_returns |-> TRUE, num_quarters |-> 0]

\* The loop over k..last (0-based, ascending) on the entries qd, from the
\* locals w: each step compounds total_return[k]; an entry without a numeric
\* total_return (or a k beyond the entries) clears valid_returns and ends the
\* loop (break).
RECURSIVE Walk(_, _, _, _)
Walk(qd, k, last, w) ==
    IF k > last \/ ~w.valid_returns
    THEN w
    ELSE IF k >= Len(qd)
    THEN [w EXCEPT !.valid_returns = FALSE]
    ELSE LET period_return == At(qd, k).total_return
         IN  IF ~IsNone(period_return) /\ IsNumeric(period_return)
             THEN Walk(qd, k + 1, last,
                     [w EXCEPT !.cumulative_value = Compound(@, period_return),
                               !.num_quarters = @ + 1])
             ELSE [w EXCEPT !.valid_returns = FALSE]

\* Faulty variant: the cumulative return reported without annualizing
AnnualizeNoPower(cumulative_value, quarters) ==
    Sub(cumulative_value, Num(100))

\* ((1 + cumulative_return / 100) ** (1.0 / years) - 1.0) * 100.0 with
\* years = quarters / 4.0
Annualize(cumulative_value, quarters) ==
    LET cumulative_return == Sub(cumulative_value, Num(100))
        base == Add(Num(1), Div(cumulative_return, Num(100)))
    IN  IF 4 % quarters = 0
        THEN Mul(Sub(IntPow(base, 4 \div quarters), Num(1)), Num(100))
        ELSE [tag |-> "root", n |-> base.n, d |-> base.d, q |-> quarters]

\* Faulty variant: the walk of a fixed horizon starts at quarter j itself
FixedForwardReturnFromCurrent(qd, j, required_quarters) ==
    IF j + required_quarters < Len(qd)
    THEN LET w == Walk(qd, j, j + required_quarters - 1, WalkStart)
         IN  IF w.valid_returns /\ required_quarters > 0
             THEN Annualize(w.cumulative_value, required_quarters)
             ELSE Null
    ELSE Null

\* forward_return_<period_name> of quarter j for required_quarters
FixedForwardReturn(qd, j, required_quarters) ==
    IF j + required_quarters < Len(qd)
    THEN LET w == Walk(qd, j + 1, j + required_quarters, WalkStart)
         IN  IF w.valid_returns /\ required_quarters > 0
             THEN Annualize(w.cumulative_value, required_quarters)
             ELSE Null
    ELSE Null

\* Faulty variant: the start quarter counted among the quarters compounded
TotalForwardReturnCountStart(qd, j) ==
    IF j < Len(qd) - 1
    THEN LET w == Walk(qd, j + 1, Len(qd) - 1, WalkStart)
         IN  IF w.valid_returns /\ w.num_quarters > 0
             THEN Annualize(w.cumulative_value, w.num_quarters + 1)
             ELSE Null
    ELSE Null

\* forward_return (open horizon) of quarter j
TotalForwardReturn(qd, j) ==
    IF j < Len(qd) - 1
    THEN LET w == Walk(qd, j + 1, Len(qd) - 1, WalkStart)
         IN  IF w.valid_returns /\ w.num_quarters > 0
             THEN Annualize(w.cumulative_value, w.num_quarters)
             ELSE Null
    ELSE Null

\* Entry j after the second loop
WithForwardReturns(qd, j) ==
    [period           |-> At(qd, j).period,
     price            |-> At(qd, j).price,
     dividends        |-> At(qd, j).dividends,
     roa              |-> At(qd, j).roa,
     ebit_ppe         |-> At(qd, j).ebit_ppe,
     gross_margin     |-> At(qd, j).gross_margin,
     operating_margin |-> At(qd, j).operating_margin,
     ev_ebit          |-> At(qd, j).ev_ebit,
     total_return     |-> At(qd, j).total_return,
     forward_return_1y  |-> FixedForwardReturn(qd, j, Quarters1y),
     forward_return_3y  |-> FixedForwardReturn(qd, j, Quarters3y),
     forward_return_5y  |-> FixedForwardReturn(qd, j, Quarters5y),
     forward_return_10y |-> FixedForwardReturn(qd, j, Quarters10y),
     forward_return     |-> TotalForwardReturn(qd, j)]

(***************************************************************************)
(* get_metrics.extract_quarterly_data: trailing-twelve-month EBIT/PPE.     *)
(***************************************************************************)
\* The loop over k = from..j: the two running sums, valid FALSE at the first
\* k beyond either array or with a None operand (break).
RECURSIVE TtmWalk(_, _, _, _)
TtmWalk(k, j, ttm_operating_income, ttm_ppe) ==
    IF k > j
    THEN [valid |-> TRUE, oi |-> ttm_operating_income, ppe |-> ttm_ppe]
    ELSE IF k < Len(operating_income) /\ k < Len(ppe_net)
    THEN IF ~IsNone(At(operating_income, k)) /\ ~IsNone(At(ppe_net, k))
         THEN TtmWalk(k + 1, j,
                      Add(ttm_operating_income, At(operating_income, k)),
                      Add(ttm_ppe, At(ppe_net, k)))
         ELSE [valid |-> FALSE, oi |-> ttm_operating_income, ppe |-> ttm_ppe]
    ELSE [valid |-> FALSE, oi |-> ttm_operating_income, ppe |-> ttm_ppe]

\* Faulty variant: a window of the three trailing quarters
EbitPpeTtmThree(j) ==
    IF j >= 3
    THEN LET w == TtmWalk(j - 2, j, Num(0), Num(0))
         IN  IF w.valid /\ ~IsZero(w.ppe) THEN Div(w.oi, w.ppe) ELSE Null
    ELSE Null

\* ebit_ppe_ttm of quarter j
EbitPpeTtm(j) ==
    IF j >= 3
    THEN LET w == TtmWalk(j - 3, j, Num(0), Num(0))
         IN  IF w.valid /\ ~IsZero(w.ppe) THEN Div(w.oi, w.ppe) ELSE Null
    ELSE Null

\* Entry j after the third loop
WithTtm(qd, j) ==
    [period           |-> At(qd, j).period,
     price            |-> At(qd, j).price,
     dividends        |-> At(qd, j).dividends,
     roa              |-> At(qd, j).roa,
     ebit_ppe         |-> At(qd, j).ebit_ppe,
     gross_margin     |-> At(qd, j).gross_margin,
     operating_margin |-> At(qd, j).operating_margin,
     ev_ebit          |-> At(qd, j).ev_ebit,
     total_return     |-> At(qd, j).total_return,
     forward_return_1y  |-> At(qd, j).forward_return_1y,
     forward_return_3y  |-> At(qd, j).forward_return_3y,
     forward_return_5y  |-> At(qd, j).forward_return_5y,
     forward_return_10y |-> At(qd, j).forward_return_10y,
     forward_return     |-> At(qd, j).forward_return,
     ebit_ppe_ttm       |-> EbitPpeTtm(j)]

(***************************************************************************)
(* get_data.process_batch_data: the producer of data.json.                 *)
(***************************************************************************)
\* total_return of quarter j
BatchTotalReturn(j) ==
    LET current_price == IF j < Len(prices) /\ ~IsNone(At(prices, j))
                         THEN At(prices, j) ELSE Num(0)
        current_dividend == IF j < Len(dividends) /\ ~IsNone(At(dividends, j))
                            THEN At(dividends, j) ELSE Num(0)
    IN  IF j > 0 /\ j - 1 < Len(prices)
        THEN LET prev_price == IF ~IsNone(At(prices, j - 1))
                               THEN At(prices, j - 1) ELSE Num(0)
             IN  IF Gt0(prev_price) /\ Gt0(current_price)
                 THEN Mul(Div(Add(Sub(current_price, prev_price),
                                  current_dividend), prev_price), Num(100))
                 ELSE Null
        ELSE Null

\* The dict appended for quarter j
BatchEntry(j) ==
    [period       |-> At(period_dates, j),
     price        |-> IF j < Len(prices) /\ ~IsNone(At(prices, j))
                      THEN At(prices, j) ELSE Num(0),
     dividends    |-> IF j < Len(dividends) /\ ~IsNone(At(dividends, j))
                      THEN At(dividends, j) ELSE Num(0),
     roa          |-> IF j < Len(roa) /\ ~IsNone(At(roa, j))
                      THEN At(roa, j) ELSE Null,
     total_return |-> BatchTotalReturn(j)]

\* The loop over k..len-1 on the entries qd, from the locals w: each step
\* compounds total_return[k]; a None total_return clears valid_returns and
\* ends the loop (break).
RECURSIVE BatchWalk(_, _, _)
BatchWalk(qd, k, w) ==
    IF k >= Len(qd) \/ ~w.valid_returns
    THEN w
    ELSE LET period_return == At(qd, k).total_return
         IN  IF ~IsNone(period_return)
             THEN BatchWalk(qd, k + 1,
                     [w EXCEPT !.cumulative_value =
                         Mul(@, Add(Num(1), Div(period_return, Num(100))))])
             ELSE [w EXCEPT !.valid_returns = FALSE]

\* forward_return of quarter j
BatchForwardReturn(qd, j) ==
    IF j < Len(qd) - 1
    THEN LET w == BatchWalk(qd, j + 1,
                     [cumulative_value |-> Num(100), valid_returns |-> TRUE])
         IN  IF w.valid_returns
             THEN Sub(w.cumulative_value, Num(100)) ELSE Null
    ELSE Null

\* Entry j after the second loop
BatchWithForwardReturn(qd, j) ==
    [period         |-> At(qd, j).period,
     price          |-> At(qd, j).price,
     dividends      |-> At(qd, j).dividends,
     roa            |-> At(qd, j).roa,
     total_return   |-> At(qd, j).total_return,
     forward_return |-> BatchForwardReturn(qd, j)]

(***************************************************************************)
(* correlations.extract_roa_forward_return_pairs.                          *)
(***************************************************************************)
\* A key the entry dict does not hold
Absent == [tag |-> "absent"]

\* entry.get(key): None when the key is missing
Get(v) == IF v = Absent THEN Null ELSE v

\* float(v) of a numeric v
Float(v) == Rat(v.n, v.d)

\* Faulty variant: a pair whose ROA is 0 is dropped as well
KeepPairNonZeroRoa(entry) ==
    LET r == Get(entry.roa)
        f == Get(entry.forward_return)
    IN  /\ ~IsNone(r) /\ ~IsNone(f) /\ IsNumeric(r) /\ IsNumeric(f)
        /\ ~IsZero(r)

\* The filter of the inner loop
KeepPair(entry) ==
    LET r == Get(entry.roa)
        f == Get(entry.forward_return)
    IN  ~IsNone(r) /\ ~IsNone(f) /\ IsNumeric(r) /\ IsNumeric(f)

\* Faulty variant: the inner loop ends at the first entry it drops
RECURSIVE WalkEntriesUntilDropped(_, _, _, _)
WalkEntriesUntilDropped(entries, i, rs, fs) ==
    IF i > Len(entries) \/ ~KeepPair(entries[i])
    THEN [roa_values |-> rs, forward_return_values |-> fs]
    ELSE WalkEntriesUntilDropped(entries, i + 1,
                     Append(rs, Float(Get(entries[i].roa))),
                     Append(fs, Float(Get(entries[i].forward_return))))

\* The inner loop over entries[i..]: both lists after the appends
RECURSIVE WalkEntries(_, _, _, _)
WalkEntries(entries, i, rs, fs) ==
    IF i > Len(entries)
    THEN [roa_values |-> rs, forward_return_values |-> fs]
    ELSE IF KeepPair(entries[i])
    THEN WalkEntries(entries, i + 1,
                     Append(rs, Float(Get(entries[i].roa))),
                     Append(fs, Float(Get(entries[i].forward_return))))
    ELSE WalkEntries(entries, i + 1, rs, fs)

\* The outer loop over data[i..], from the lists w
RECURSIVE WalkStocks(_, _, _)
WalkStocks(data, i, w) ==
    IF i > Len(data) THEN w
    ELSE WalkStocks(data, i + 1,
                    WalkEntries(data[i].data, 1,
                                w.roa_values, w.forward_return_values))

\* extract_roa_forward_return_pairs(data)
ExtractPairs(data) ==
    WalkStocks(data, 1, [roa_values |-> <<>>, forward_return_values |-> <<>>])

(***************************************************************************)
(* Inputs.                                                                 *)
(***************************************************************************)
\* Longest series whose price and dividend arrays are enumerated in full
MaxShort == 2

\* Longest series of the one-defect price family
MaxLen == 42

\* Longest series of the ratio family
MaxRatioLen == 5

SeqsUpTo(S, lo, hi) == UNION {[1..k -> S] : k \in lo..hi}

Periods(n) == [i \in 1..n |-> i]

PriceVals == {Null, Num(0), Num(-1), Num(1), Num(2)}

DivVals == {Null, Num(1)}

\* A price series 1, 2, 1, 2, ... of length len whose entry d (if any) is v
PricePattern(len, d, v) ==
    [i \in 1..len |-> IF i = d THEN v ELSE Num(1 + ((i + 1) % 2))]

\* A dividend series of length len, all 0 but a dividend of 1 at e (if any)
DivPattern(len, e) == [i \in 1..len |-> IF i = e THEN Num(1) ELSE Num(0)]

\* operating_income i, with None at d (if any)
OiPattern(len, d) == [i \in 1..len |-> IF i = d THEN Null ELSE Num(i)]

\* ppe_net a, -1, 1, -1, 1, ..., with None at d (if any)
PpePattern(len, a, d) ==
    [i \in 1..len |-> IF i = d THEN Null
                      ELSE IF i = 1 THEN Num(a)
                      ELSE IF i % 2 = 0 THEN Num(-1) ELSE Num(1)]

NoRatios ==
    /\ roa = <<>>
    /\ operating_income = <<>>
    /\ ppe_net = <<>>
    /\ revenue = <<>>
    /\ cost_of_goods_sold = <<>>
    /\ enterprise_value = <<>>

\* Nothing of the other functions has run
Idle ==
    /\ roa_ranks = <<>>
    /\ forward_return_ranks = <<>>
    /\ report = Null
    /\ stocks = <<>>
    /\ results = <<>>
    /\ stats = Null
    /\ stock_i = 0
    /\ saved = Null
    /\ run = 1
    /\ raised = "none"
    /\ metrics_json = Null
    /\ data_json = Null

NoOutput ==
    /\ quarterly_data = <<>>
    /\ batch_quarterly = <<>>
    /\ pool_data = <<>>
    /\ roa_values = <<>>
    /\ forward_return_values = <<>>
    /\ pool_i = 0

\* Short series, every price and dividend array
InitShort ==
    \E n \in 1..MaxShort :
        /\ period_dates = Periods(n)
        /\ prices \in SeqsUpTo(PriceVals, 1, n + 1)
        /\ dividends \in SeqsUpTo(DivVals, 0, n)
        /\ NoRatios

\* Long series with at most one missing price and at most one dividend
InitLong ==
    \E n \in 1..MaxLen :
        /\ period_dates = Periods(n)
        /\ \E d \in 0..n : prices = PricePattern(n, d, Null)
        /\ \E e \in {0, n} : dividends = DivPattern(n, e)
        /\ NoRatios

\* One quarter, every combination of the ratio operands
InitPoint ==
    /\ period_dates = Periods(1)
    /\ prices = <<Num(1)>>
    /\ dividends = <<>>
    /\ roa \in SeqsUpTo({Null, Num(1), Str}, 0, 1)
    /\ operating_income \in SeqsUpTo({Null, Num(0), Num(3)}, 0, 1)
    /\ ppe_net \in SeqsUpTo({Null, Num(0), Num(2)}, 0, 1)
    /\ revenue \in SeqsUpTo({Null, Num(0), Num(4)}, 0, 1)
    /\ cost_of_goods_sold \in SeqsUpTo({Null, Num(1)}, 0, 1)
    /\ enterprise_value \in SeqsUpTo({Null, Num(-6), Num(6)}, 0, 1)

\* Several quarters of ragged ratio arrays with at most one None each
InitRatio ==
    \E n \in 1..MaxRatioLen :
        /\ period_dates = Periods(n)
        /\ prices = PricePattern(n, 0, Null)
        /\ dividends = <<>>
        /\ roa = OiPattern(n, 1)
        /\ \E len \in 0..(n + 1) : \E d \in 0..len :
              operating_income = OiPattern(len, d)
        /\ \E len \in 0..(n + 1) : \E d \in 0..len : \E a \in {1, 2} :
              ppe_net = PpePattern(len, a, d)
        /\ revenue = ppe_net
        /\ cost_of_goods_sold = operating_income
        /\ enterprise_value = ppe_net

Init ==
    /\ InitShort \/ InitLong \/ InitPoint \/ InitRatio
    /\ NoOutput
    /\ Idle
    /\ pc = "build"

(***************************************************************************)
(* The subscripts extract_quarterly_data evaluates.                        *)
(***************************************************************************)
\* The subscript arr[index]
Read(arr, index) == [len |-> Len(arr), index |-> index]

\* The subscript is inside the array: anything else is an IndexError or a
\* read from the far end
InRange(r) == 0 <= r.index /\ r.index < r.len

\* The subscripts of a condition "j < len(a) and j < len(b) and a[j] ..."
GuardedPair(a, b, j) ==
    IF j < Len(a) /\ j < Len(b) THEN {Read(a, j), Read(b, j)} ELSE {}

\* The subscripts of iteration j of the first loop
FirstLoopReads(j) ==
    {Read(period_dates, j)}
    \cup (IF j < Len(prices) THEN {Read(prices, j)} ELSE {})
    \cup (IF j < Len(dividends) THEN {Read(dividends, j)} ELSE {})
    \cup (IF j < Len(roa) THEN {Read(roa, j)} ELSE {})
    \cup GuardedPair(operating_income, ppe_net, j)
    \cup GuardedPair(revenue, cost_of_goods_sold, j)
    \cup GuardedPair(operating_income, revenue, j)
    \cup GuardedPair(enterprise_value, operating_income, j)
    \cup (IF j > 0 /\ j - 1 < Len(prices) THEN {Read(prices, j - 1)} ELSE {})

\* The subscripts quarterly_data[k] of iteration j of the second loop: the
\* walk of each fixed horizon that is long enough, and the open walk
ForwardReads(qd, j) ==
    UNION {IF j + required_quarters < Len(qd)
           THEN {Read(qd, k) : k \in {i \in (j + 1)..(j + required_quarters) :
                                        i < Len(qd)}}
           ELSE {} :
           required_quarters \in {Quarters1y, Quarters3y, Quarters5y,
                                  Quarters10y}}
    \cup (IF j < Len(qd) - 1
          THEN {Read(qd, k) : k \in (j + 1)..(Len(qd) - 1)}
          ELSE {})

\* Faulty variant: only the length of operating_income is checked
TtmReadsOneCheck(j) ==
    IF j >= 3
    THEN UNION {IF k < Len(operating_income)
                THEN {Read(operating_income, k), Read(ppe_net, k)}
                ELSE {} : k \in (j - 3)..j}
    ELSE {}

\* The subscripts of iteration j of the third loop
TtmReads(j) ==
    IF j >= 3
    THEN UNION {GuardedPair(operating_income, ppe_net, k) : k \in (j - 3)..j}
    ELSE {}

(***************************************************************************)
(* The pipeline.                                                           *)
(***************************************************************************)
\* Faulty variant: the loop stops at the shorter of the dates and the prices
BuildQuarterlyZipped ==
    /\ pc = "build"
    /\ quarterly_data' =
           [i \in 1..(IF Len(prices) < Len(period_dates)
                      THEN Len(prices) ELSE Len(period_dates)) |->
               QuarterEntry(i - 1)]
    /\ pc' = "forward"
    /\ UNCHANGED <<inputs, batch_quarterly, poolvars, others>>

\* get_metrics.extract_quarterly_data, first loop
BuildQuarterly ==
    /\ pc = "build"
    /\ IF \A j \in 0..(Len(period_dates) - 1) :
             \A r \in FirstLoopReads(j) : InRange(r)
       THEN /\ quarterly_data' =
                   [i \in 1..Len(period_dates) |-> QuarterEntry(i - 1)]
            /\ pc' = "forward"
            /\ UNCHANGED raised
       ELSE /\ raised' = "IndexError"
            /\ pc' = "raised"
            /\ UNCHANGED quarterly_data
    /\ UNCHANGED <<inputs, batch_quarterly, poolvars, corrvars, allvars,
                   runvars, savevars>>

\* get_metrics.extract_quarterly_data, second loop
ForwardReturns ==
    /\ pc = "forward"
    /\ IF \A j \in 0..(Len(quarterly_data) - 1) :
             \A r \in ForwardReads(quarterly_data, j) : InRange(r)
       THEN /\ quarterly_data' =
                   [i \in 1..Len(quarterly_data) |->
                       WithForwardReturns(quarterly_data, i - 1)]
            /\ pc' = "ttm"
            /\ UNCHANGED raised
       ELSE /\ raised' = "IndexError"
            /\ pc' = "raised"
            /\ UNCHANGED quarterly_data
    /\ UNCHANGED <<inputs, batch_quarterly, poolvars, corrvars, allvars,
                   runvars, savevars>>

\* get_metrics.extract_quarterly_data, third loop and return
Ttm ==
    /\ pc = "ttm"
    /\ IF \A j \in 0..(Len(quarterly_data) - 1) :
             \A r \in TtmReads(j) : InRange(r)
       THEN /\ quarterly_data' =
                   [i \in 1..Len(quarterly_data) |->
                       WithTtm(quarterly_data, i - 1)]
            /\ pc' = "batch_build"
            /\ UNCHANGED raised
       ELSE /\ raised' = "IndexError"
            /\ pc' = "raised"
            /\ UNCHANGED quarterly_data
    /\ UNCHANGED <<inputs, batch_quarterly, poolvars, corrvars, allvars,
                   runvars, savevars>>

\* get_data.process_batch_data, first loop
BatchBuild ==
    /\ pc = "batch_build"
    /\ batch_quarterly' = [i \in 1..Len(period_dates) |-> BatchEntry(i - 1)]
    /\ pc' = "batch_forward"
    /\ UNCHANGED <<inputs, quarterly_data, poolvars, others>>

\* get_data.process_batch_data, second loop and return
BatchForward ==
    /\ pc = "batch_forward"
    /\ batch_quarterly' = [i \in 1..Len(batch_quarterly) |->
                              BatchWithForwardReturn(batch_quarterly, i - 1)]
    /\ pc' = "done"
    /\ UNCHANGED <<inputs, quarterly_data, poolvars, others>>

Next == BuildQuarterly \/ ForwardReturns \/ Ttm \/ BatchBuild \/ BatchForward

Spec == Init /\ [][Next]_vars

(***************************************************************************)
(* The pool-and-filter stage on its own.                                   *)
(***************************************************************************)
\* Most quarter entries in the loaded data
MaxPool == 3

RoaVals == {Absent, Null, Num(0), Num(3), Str}

ForwardVals == {Absent, Null, Num(-50), Num(7), Str}

\* The entries read by the filter, by their roa and forward_return keys:
\* every roa with a numeric forward_return, every forward_return with a
\* numeric roa, and entries lacking both
Entries ==
    [roa : RoaVals, forward_return : {Num(-50)}]
    \cup [roa : {Num(3)}, forward_return : ForwardVals]
    \cup {[roa |-> Num(0), forward_return |-> Num(7)],
          [roa |-> Absent, forward_return |-> Null],
          [roa |-> Str, forward_return |-> Str]}

\* Two stocks holding the entries es, the first c of them in the first stock
TwoStocks(es, c) ==
    << [data |-> SubSeq(es, 1, c)], [data |-> SubSeq(es, c + 1, Len(es))] >>

InitPool ==
    /\ period_dates = <<>>
    /\ prices = <<>>
    /\ dividends = <<>>
    /\ NoRatios
    /\ quarterly_data = <<>>
    /\ batch_quarterly = <<>>
    /\ \E es \in SeqsUpTo(Entries, 0, MaxPool) : \E c \in 0..Len(es) :
          pool_data = TwoStocks(es, c)
    /\ roa_values = <<>>
    /\ forward_return_values = <<>>
    /\ pool_i = 0
    /\ Idle
    /\ pc = "pool"

\* One turn of the outer loop: the entries of the next stock
ExtractStock ==
    /\ pc = "pool"
    /\ pool_i < Len(pool_data)
    /\ LET w == WalkEntries(pool_data[pool_i + 1].data, 1,
                            roa_values, forward_return_values)
       IN  /\ roa_values' = w.roa_values
           /\ forward_return_values' = w.forward_return_values
    /\ pool_i' = pool_i + 1
    /\ UNCHANGED <<inputs, quarterly_data, batch_quarterly, pool_data, pc,
                   others>>

\* return roa_values, forward_return_values
ExtractReturn ==
    /\ pc = "pool"
    /\ pool_i = Len(pool_data)
    /\ pc' = "pool_done"
    /\ UNCHANGED <<inputs, quarterly_data, batch_quarterly, poolvars, others>>

NextPool == ExtractStock \/ ExtractReturn

SpecPool == InitPool /\ [][NextPool]_vars

(***************************************************************************)
(* correlations.calculate_correlations.                                    *)
(***************************************************************************)
\* Most values in either argument list
MaxPairs == 3

\* The values of the argument lists
CorrVals == {Num(1), Num(2), Num(3)}

\* A float of the report whose value is not modelled (p-values, deviations)
SomeFloat == [tag |-> "float"]

\* The float nan
NaN == [tag |-> "nan"]

\* Faulty variant: the check for too few points comes first
EntryCheckShortFirst(rs, fs) ==
    IF Len(rs) < 2 THEN "insufficient"
    ELSE IF Len(rs) # Len(fs) THEN "ValueError"
    ELSE "rank"

\* The two checks the function opens with, in their order
EntryCheck(rs, fs) ==
    IF Len(rs) # Len(fs) THEN "ValueError"
    ELSE IF Len(rs) < 2 THEN "insufficient"
    ELSE "rank"

\* Faulty variant: the report of too few points counts no pair
InsufficientReportNoCount(rs) ==
    [n_pairs |-> 0,
     pearson_correlation |-> Null, pearson_pvalue |-> Null,
     ranked_correlation |-> Null, ranked_pvalue |-> Null,
     spearman_correlation |-> Null, spearman_pvalue |-> Null,
     roa_ranks |-> <<>>, forward_return_ranks |-> <<>>,
     error |-> "Insufficient data points for correlation"]

\* The dict returned for fewer than two points
InsufficientReport(rs) ==
    [n_pairs |-> Len(rs),
     pearson_correlation |-> Null, pearson_pvalue |-> Null,
     ranked_correlation |-> Null, ranked_pvalue |-> Null,
     spearman_correlation |-> Null, spearman_pvalue |-> Null,
     roa_ranks |-> <<>>, forward_return_ranks |-> <<>>,
     error |-> "Insufficient data points for correlation"]

\* scipy.stats.rankdata(xs, method='average'): a value's rank is the mean
\* of the positions its ties take in sorted order
RankData(xs) ==
    [i \in 1..Len(xs) |->
        LET less == Cardinality({k \in 1..Len(xs) : Gt0(Sub(xs[i], xs[k]))})
            same == Cardinality({k \in 1..Len(xs) : xs[k] = xs[i]})
        IN  Rat(2 * less + same + 1, 2)]

\* ranks.min()
RECURSIVE Min(_, _)
Min(xs, i) ==
    IF i = Len(xs) THEN xs[i]
    ELSE LET rest == Min(xs, i + 1)
         IN  IF Gt0(Sub(xs[i], rest)) THEN rest ELSE xs[i]

\* ranks.max()
RECURSIVE Max(_, _)
Max(xs, i) ==
    IF i = Len(xs) THEN xs[i]
    ELSE LET rest == Max(xs, i + 1)
         IN  IF Gt0(Sub(rest, xs[i])) THEN rest ELSE xs[i]

\* The condition of either assert statement
RanksSpan(ranks, n) == Min(ranks, 1) = Num(1) /\ Max(ranks, 1) = Num(n)

\* The sum of xs[i] * ys[i] over the lists
RECURSIVE SumProducts(_, _, _)
SumProducts(xs, ys, i) ==
    IF i > Len(xs) THEN Num(0)
    ELSE Add(Mul(xs[i], ys[i]), SumProducts(xs, ys, i + 1))

\* n times the sum of the products of the deviations from the two means
Covariation(xs, ys) ==
    LET ones == [i \in 1..Len(xs) |-> Num(1)]
    IN  Sub(Mul(Num(Len(xs)), SumProducts(xs, ys, 1)),
            Mul(SumProducts(xs, ones, 1), SumProducts(ys, ones, 1)))

\* scipy.stats.pearsonr(xs, ys)[0]: nan for a constant list, otherwise the
\* coefficient r, held as its sign and its square
Pearson(xs, ys) ==
    LET sxy == Covariation(xs, ys)
        sxx == Covariation(xs, xs)
        syy == Covariation(ys, ys)
    IN  IF IsZero(sxx) \/ IsZero(syy) THEN NaN
        ELSE [tag |-> "r",
              sign |-> IF Gt0(sxy) THEN 1 ELSE IF IsZero(sxy) THEN 0 ELSE -1,
              square |-> Div(Mul(sxy, sxy), Mul(sxx, syy))]

\* scipy.stats.spearmanr(xs, ys)[0]: the Pearson coefficient of the ranks
Spearman(xs, ys) == Pearson(RankData(xs), RankData(ys))

\* np.mean(xs)
Mean(xs) ==
    Div(SumProducts(xs, [i \in 1..Len(xs) |-> Num(1)], 1), Num(Len(xs)))

\* The dict returned for two points or more
FullReport(rs, fs, rranks, franks) ==
    [n_pairs |-> Len(rs),
     pearson_correlation |-> Pearson(rs, fs), pearson_pvalue |-> SomeFloat,
     ranked_correlation |-> Pearson(rranks, franks),
     ranked_pvalue |-> SomeFloat,
     spearman_correlation |-> Spearman(rs, fs),
     spearman_pvalue |-> SomeFloat,
     roa_mean |-> Mean(rs), roa_std |-> SomeFloat,
     roa_min |-> Min(rs, 1), roa_max |-> Max(rs, 1),
     forward_return_mean |-> Mean(fs), forward_return_std |-> SomeFloat,
     forward_return_min |-> Min(fs, 1), forward_return_max |-> Max(fs, 1),
     roa_ranks |-> rranks, forward_return_ranks |-> franks]

InitCorr ==
    /\ period_dates = <<>>
    /\ prices = <<>>
    /\ dividends = <<>>
    /\ NoRatios
    /\ quarterly_data = <<>>
    /\ batch_quarterly = <<>>
    /\ pool_data = <<>>
    /\ pool_i = 0
    /\ roa_values \in SeqsUpTo(CorrVals, 0, MaxPairs)
    /\ forward_return_values \in SeqsUpTo(CorrVals, 0, MaxPairs)
    /\ Idle
    /\ pc = "corr"

\* raise ValueError(...): the lists differ in length
RaiseMismatch ==
    /\ pc = "corr"
    /\ EntryCheck(roa_values, forward_return_values) = "ValueError"
    /\ raised' = "ValueError"
    /\ pc' = "corr_raised"
    /\ UNCHANGED <<inputs, quarterly_data, batch_quarterly, poolvars,
                   corrvars, allvars, runvars, savevars>>

\* The early return for fewer than two points
ReturnInsufficient ==
    /\ pc = "corr"
    /\ EntryCheck(roa_values, forward_return_values) = "insufficient"
    /\ report' = InsufficientReport(roa_values)
    /\ pc' = "corr_returned"
    /\ UNCHANGED <<inputs, quarterly_data, batch_quarterly, poolvars,
                   roa_ranks, forward_return_ranks, allvars, runvars, savevars, raised>>

\* The two calls of rankdata
Rank ==
    /\ pc = "corr"
    /\ EntryCheck(roa_values, forward_return_values) = "rank"
    /\ roa_ranks' = RankData(roa_values)
    /\ forward_return_ranks' = RankData(forward_return_values)
    /\ pc' = "corr_assert"
    /\ UNCHANGED <<inputs, quarterly_data, batch_quarterly, poolvars,
                   report, allvars, runvars, savevars, raised>>

\* The two assert statements
AssertRanks ==
    /\ pc = "corr_assert"
    /\ IF /\ RanksSpan(roa_ranks, Len(roa_values))
          /\ RanksSpan(forward_return_ranks, Len(forward_return_values))
       THEN pc' = "corr_stats" /\ UNCHANGED raised
       ELSE pc' = "corr_raised" /\ raised' = "AssertionError"
    /\ UNCHANGED <<inputs, quarterly_data, batch_quarterly, poolvars,
                   corrvars, allvars, runvars, savevars>>

\* The coefficients, the basic statistics and the return
ReturnReport ==
    /\ pc = "corr_stats"
    /\ report' = FullReport(roa_values, forward_return_values,
                            roa_ranks, forward_return_ranks)
    /\ pc' = "corr_returned"
    /\ UNCHANGED <<inputs, quarterly_data, batch_quarterly, poolvars,
                   roa_ranks, forward_return_ranks, allvars, runvars, savevars, raised>>

\* The keys print_statistics reads from the report, in its order; each
\* value but the first is formatted as a float
PrintedKeys ==
    <<"n_pairs", "roa_mean", "roa_std", "roa_min", "roa_max",
      "forward_return_mean", "forward_return_std", "forward_return_min",
      "forward_return_max", "pearson_correlation", "pearson_pvalue",
      "ranked_correlation", "ranked_pvalue", "spearman_correlation",
      "spearman_pvalue">>

\* print_statistics(st) from its k-th key on: KeyError at a key the report
\* lacks, TypeError at a None formatted as a float, "printed" at the end
RECURSIVE PrintFrom(_, _)
PrintFrom(st, k) ==
    IF k > Len(PrintedKeys) THEN "printed"
    ELSE IF PrintedKeys[k] \notin DOMAIN st THEN "KeyError"
    ELSE IF k > 1 /\ IsNone(st[PrintedKeys[k]]) THEN "TypeError"
    ELSE PrintFrom(st, k + 1)

\* main after calculate_correlations has returned (main calls it for one
\* pair or more): print_statistics, then the plot, whose exceptions main
\* catches
PrintStatistics ==
    /\ pc = "corr_returned"
    /\ Len(roa_values) # 0
    /\ IF PrintFrom(report, 1) = "printed"
       THEN pc' = "main_done" /\ UNCHANGED raised
       ELSE pc' = "main_raised" /\ raised' = PrintFrom(report, 1)
    /\ UNCHANGED <<inputs, quarterly_data, batch_quarterly, poolvars,
                   corrvars, allvars, runvars, savevars>>

NextCorr ==
    \/ RaiseMismatch \/ ReturnInsufficient \/ Rank \/ AssertRanks
    \/ ReturnReport \/ PrintStatistics

SpecCorr == InitCorr /\ [][NextCorr]_vars

(***************************************************************************)
(* get_metrics.extract_quarterly_data from its first line, and             *)
(* get_metrics.calculate_metrics_for_all_stocks.                           *)
(***************************************************************************)
\* A JSON array
List(items) == [tag |-> "list", items |-> items]

\* isinstance(v, list)
IsList(v) == v.tag = "list"

\* The keys a dict holds
Keys(d) == {k \in DOMAIN d \ {"tag"} : d[k] # Absent}

\* bool(v): None, 0, the empty list and the empty dict are false; Str
\* stands for a string that is not empty
Truthy(v) ==
    CASE v.tag = "null" -> FALSE
      [] v.tag = "num" -> v.n # 0
      [] v.tag = "list" -> v.items # <<>>
      [] v.tag = "dict" -> Keys(v) # {}
      [] OTHER -> TRUE

\* d.get(key, [])
GetOrEmpty(d, key) == IF d[key] = Absent THEN List(<<>>) ELSE d[key]

\* The candidate keys of the period array, in the order they are tried
DateKeys == <<"period_end_date", "fiscal_quarter_key", "original_filing_date">>

\* Faulty variant: a key whose value is not a list is passed over
RECURSIVE FirstDatesListOnly(_, _)
FirstDatesListOnly(data, k) ==
    IF k > Len(DateKeys) THEN Null
    ELSE IF /\ data[DateKeys[k]] # Absent
            /\ Truthy(data[DateKeys[k]])
            /\ IsList(data[DateKeys[k]])
    THEN data[DateKeys[k]]
    ELSE FirstDatesListOnly(data, k + 1)

\* Faulty variant: the loop goes on after a key is found, the last one wins
RECURSIVE FirstDatesNoBreak(_, _)
FirstDatesNoBreak(data, k) ==
    IF k > Len(DateKeys) THEN Null
    ELSE LET later == FirstDatesNoBreak(data, k + 1)
         IN  IF later # Null THEN later
             ELSE IF data[DateKeys[k]] # Absent /\ Truthy(data[DateKeys[k]])
             THEN data[DateKeys[k]]
             ELSE Null

\* The loop over the candidate keys from the k-th on: the value of the
\* first key that is present with a true value, None when there is none
RECURSIVE FirstDates(_, _)
FirstDates(data, k) ==
    IF k > Len(DateKeys) THEN Null
    ELSE IF data[DateKeys[k]] # Absent /\ Truthy(data[DateKeys[k]])
    THEN data[DateKeys[k]]
    ELSE FirstDates(data, k + 1)

\* An array of data as the loops read it: [] unless the value is a list
ListOrEmpty(v) == IF IsList(v) THEN v.items ELSE <<>>

\* cost_of_goods_sold, read from "cogs" when the first key gives nothing
CostOfGoodsSold(data) ==
    LET first == GetOrEmpty(data, "cost_of_goods_sold")
    IN  ListOrEmpty(IF ~Truthy(first) THEN GetOrEmpty(data, "cogs")
                    ELSE first)

\* The statements before the first loop, for a "data" value that is a dict
\* or null: what becomes of the call
\*   "none"    return None
\*   "raise"   an exception leaves the function
\*   "derive"  the three loops run on the arrays
Prologue(stock_data) ==
    IF ~Truthy(stock_data) \/ stock_data.data = Absent THEN "none"
    ELSE IF stock_data.data = Null THEN "raise"
    ELSE LET data == stock_data.data
             dates == FirstDates(data, 1)
             price == GetOrEmpty(data, "period_end_price")
         IN  IF ~Truthy(dates) \/ ~IsList(dates) THEN "none"
             ELSE IF ~IsList(price) \/ ~Truthy(price) THEN "none"
             ELSE "derive"

\* symbol and company_name of the record returned
Symbol(stock_data) == Get(stock_data.symbol)

CompanyName(stock_data) ==
    IF stock_data.company_name = Absent THEN Symbol(stock_data)
    ELSE stock_data.company_name

\* The entry fields whose non-null values are counted, by counter
CountedFields ==
    [roa_data_points |-> "roa",
     ebit_ppe_data_points |-> "ebit_ppe",
     ebit_ppe_ttm_data_points |-> "ebit_ppe_ttm",
     gross_margin_data_points |-> "gross_margin",
     operating_margin_data_points |-> "operating_margin",
     ev_ebit_data_points |-> "ev_ebit",
     forward_return_1y_data_points |-> "forward_return_1y",
     forward_return_3y_data_points |-> "forward_return_3y",
     forward_return_5y_data_points |-> "forward_return_5y",
     forward_return_10y_data_points |-> "forward_return_10y"]

\* The entries of qd whose field is not None
DataPoints(qd, field) == Cardinality({i \in 1..Len(qd) : qd[i][field] # Null})

\* stats and error_details before the loop
StatsStart(n) ==
    [total_stocks |-> n, processed |-> 0, skipped |-> 0, errors |-> 0,
     total_quarters |-> 0, quarters_per_stock |-> <<>>,
     data_points |-> [c \in DOMAIN CountedFields |-> 0],
     error_details |-> <<>>]

\* stats after a record has been derived
StatsProcessed(st, qd) ==
    [st EXCEPT !.processed = @ + 1,
               !.total_quarters = @ + Len(qd),
               !.quarters_per_stock = Append(@, Len(qd)),
               !.data_points = [c \in DOMAIN CountedFields |->
                                   @[c] + DataPoints(qd, CountedFields[c])]]

\* Faulty variant: a record without a series is not counted
StatsSkippedUncounted(st) == st

\* stats after extract_quarterly_data has returned None
StatsSkipped(st) == [st EXCEPT !.skipped = @ + 1]

\* stats and error_details after the except clause
StatsError(st, error_type) ==
    [st EXCEPT !.errors = @ + 1,
               !.error_details =
                   [t \in DOMAIN @ \cup {error_type} |->
                       IF t \in DOMAIN @
                       THEN @[t] + (IF t = error_type THEN 1 ELSE 0)
                       ELSE 1]]

\* Most records in the list of stocks
MaxStocks == 3

\* A symbol or a company name
Sym(i) == [tag |-> "str", id |-> i]

\* A data dict without any of the keys that are read
NoKeys ==
    [tag |-> "dict",
     period_end_date |-> Absent, fiscal_quarter_key |-> Absent,
     original_filing_date |-> Absent, period_end_price |-> Absent,
     dividends |-> Absent, roa |-> Absent, operating_income |-> Absent,
     ppe_net |-> Absent, revenue |-> Absent, cost_of_goods_sold |-> Absent,
     cogs |-> Absent, enterprise_value |-> Absent]

\* A company record
Stock(symbol, company_name, data) ==
    [tag |-> "dict", symbol |-> symbol, company_name |-> company_name,
     data |-> data]

\* The values of a date key: missing, null, empty, a string, one or two
\* periods that tell the key
DateVals(key) ==
    {Absent, Null, List(<<>>), Str, List(<<10 * key + 1>>),
     List(<<10 * key + 1, 10 * key + 2>>)}

\* The values of "period_end_price"
PriceArrays == {Absent, Null, List(<<>>), Str, List(<<Num(1), Num(2)>>)}

\* One record, every combination of the keys the first statements read
OneStock ==
    {<<Stock(s, c, [NoKeys EXCEPT !.period_end_date = d1,
                                  !.fiscal_quarter_key = d2,
                                  !.original_filing_date = d3,
                                  !.period_end_price = p])>> :
        s \in {Absent, Sym(1)}, c \in {Absent, Sym(2)},
        d1 \in DateVals(1), d2 \in DateVals(2), d3 \in DateVals(3),
        p \in PriceArrays}

\* The records of the longer lists: a line that is not an object, an empty
\* object, a null "data", a record without prices, and two usable records
Shapes ==
    {Null,
     Stock(Absent, Absent, Absent),
     Stock(Sym(3), Absent, Null),
     Stock(Sym(4), Sym(5),
           [NoKeys EXCEPT !.fiscal_quarter_key = List(<<1, 2>>)]),
     Stock(Sym(6), Sym(7),
           [NoKeys EXCEPT !.period_end_date = List(<<1>>),
                          !.period_end_price = List(<<Num(1)>>)]),
     Stock(Sym(8), Absent,
           [NoKeys EXCEPT !.original_filing_date = List(<<1, 2>>),
                          !.period_end_price = List(<<Num(1), Num(2)>>),
                          !.dividends = Str,
                          !.roa = List(<<Num(3), Null>>),
                          !.operating_income = List(<<Num(1), Num(2)>>),
                          !.ppe_net = List(<<Num(2)>>),
                          !.revenue = List(<<Num(4), Num(4)>>),
                          !.cost_of_goods_sold = List(<<>>),
                          !.cogs = List(<<Num(1)>>),
                          !.enterprise_value = List(<<Num(6), Num(6)>>)])}

InitAll ==
    /\ period_dates = <<>>
    /\ prices = <<>>
    /\ dividends = <<>>
    /\ NoRatios
    /\ NoOutput
    /\ roa_ranks = <<>>
    /\ forward_return_ranks = <<>>
    /\ report = Null
    /\ stocks \in OneStock \cup SeqsUpTo(Shapes, 0, MaxStocks)
    /\ results = <<>>
    /\ stats = StatsStart(Len(stocks))
    /\ stock_i = 0
    /\ saved = Null
    /\ run = 1
    /\ raised = "none"
    /\ metrics_json = Null
    /\ data_json = Null
    /\ pc = "all"

\* The record the loop is at
StockData == stocks[stock_i + 1]

\* stock_data.get("symbol", "Unknown") on a line that is not an object:
\* AttributeError, outside the try statement
RaiseNotDict ==
    /\ pc = "all"
    /\ stock_i < Len(stocks)
    /\ StockData.tag # "dict"
    /\ raised' = "AttributeError"
    /\ pc' = "all_raised"
    /\ UNCHANGED <<inputs, quarterly_data, batch_quarterly, poolvars,
                   corrvars, allvars, runvars, savevars>>

\* extract_quarterly_data returns None
SkipStock ==
    /\ pc = "all"
    /\ stock_i < Len(stocks)
    /\ StockData.tag = "dict"
    /\ Prologue(StockData) = "none"
    /\ stats' = StatsSkipped(stats)
    /\ stock_i' = stock_i + 1
    /\ UNCHANGED <<inputs, quarterly_data, batch_quarterly, poolvars,
                   corrvars, stocks, results, runvars, savevars, raised, pc>>

\* extract_quarterly_data raises: the except clause
CountError ==
    /\ pc = "all"
    /\ stock_i < Len(stocks)
    /\ StockData.tag = "dict"
    /\ Prologue(StockData) = "raise"
    /\ stats' = StatsError(stats, "TypeError")
    /\ stock_i' = stock_i + 1
    /\ UNCHANGED <<inputs, quarterly_data, batch_quarterly, poolvars,
                   corrvars, stocks, results, runvars, savevars, raised, pc>>

\* extract_quarterly_data reaches its loops: the arrays they read
DeriveStock ==
    /\ pc = "all"
    /\ stock_i < Len(stocks)
    /\ StockData.tag = "dict"
    /\ Prologue(StockData) = "derive"
    /\ LET data == StockData.data
           array(key) == ListOrEmpty(GetOrEmpty(data, key))
       IN  /\ period_dates' = FirstDates(data, 1).items
           /\ prices' = array("period_end_price")
           /\ dividends' = array("dividends")
           /\ roa' = array("roa")
           /\ operating_income' = array("operating_income")
           /\ ppe_net' = array("ppe_net")
           /\ revenue' = array("revenue")
           /\ cost_of_goods_sold' = CostOfGoodsSold(data)
           /\ enterprise_value' = array("enterprise_value")
    /\ pc' = "build"
    /\ UNCHANGED <<quarterly_data, batch_quarterly, poolvars, others>>

\* extract_quarterly_data has returned its record: the if branch
CollectStock ==
    /\ pc = "batch_build"
    /\ stock_i < Len(stocks)
    /\ results' = Append(results,
                         [symbol |-> Symbol(StockData),
                          company_name |-> CompanyName(StockData),
                          data |-> quarterly_data])
    /\ stats' = StatsProcessed(stats, quarterly_data)
    /\ stock_i' = stock_i + 1
    /\ pc' = "all"
    /\ UNCHANGED <<inputs, quarterly_data, batch_quarterly, poolvars,
                   corrvars, stocks, runvars, savevars, raised>>

\* return results, stats
ReturnAll ==
    /\ pc = "all"
    /\ stock_i = Len(stocks)
    /\ pc' = "all_done"
    /\ UNCHANGED <<inputs, quarterly_data, batch_quarterly, poolvars, others>>

NextAll ==
    \/ RaiseNotDict \/ SkipStock \/ CountError \/ DeriveStock
    \/ BuildQuarterly \/ ForwardReturns \/ Ttm
    \/ CollectStock \/ ReturnAll

SpecAll == InitAll /\ [][NextAll]_vars

(***************************************************************************)
(* extract_quarterly_data called twice, the second time on an input that   *)
(* differs from the first in one place.                                    *)
(***************************************************************************)
\* Most quarters of the input called twice
MaxLocal == 6

\* The arrays of the calls: a price series with at most one None, at most
\* one dividend, full ratio arrays
InitLocal ==
    /\ \E n \in 1..MaxLocal :
          /\ period_dates = Periods(n)
          /\ \E d \in 0..n : prices = PricePattern(n, d, Null)
          /\ \E e \in {0, n} : dividends = DivPattern(n, e)
          /\ roa = OiPattern(n, 0)
          /\ operating_income = OiPattern(n, 0)
          /\ ppe_net = PpePattern(n, 2, 0)
          /\ revenue = PpePattern(n, 4, 0)
          /\ cost_of_goods_sold = OiPattern(n, 0)
          /\ enterprise_value = PpePattern(n, 6, 0)
    /\ NoOutput
    /\ roa_ranks = <<>>
    /\ forward_return_ranks = <<>>
    /\ report = Null
    /\ stocks = <<>>
    /\ results = <<>>
    /\ stats = Null
    /\ stock_i = 0
    /\ saved = [inputs |-> inputs, quarterly_data |-> <<>>]
    /\ run = 1
    /\ raised = "none"
    /\ metrics_json = Null
    /\ data_json = Null
    /\ pc = "build"

\* The array with the value v at place p, when it has such a place
Change(arr, p, v) == IF p <= Len(arr) THEN [arr EXCEPT ![p] = v] ELSE arr

\* The array without its last element
Front(arr) == SubSeq(arr, 1, Len(arr) - 1)

\* The arrays that hold raw values
RawArrays ==
    {"prices", "dividends", "roa", "operating_income", "ppe_net", "revenue",
     "cost_of_goods_sold", "enterprise_value"}

\* The second call: on the same arrays, on the arrays with one value of one
\* of them replaced, or on the arrays without their last quarter
CallAgain ==
    /\ pc = "batch_build"
    /\ run = 1
    /\ \/ UNCHANGED inputs
       \/ \E a \in RawArrays : \E p \in 1..Len(period_dates) :
          \E v \in {Null, Num(3)} :
             LET new(name, arr) == IF a = name THEN Change(arr, p, v) ELSE arr
             IN  /\ prices' = new("prices", prices)
                 /\ dividends' = new("dividends", dividends)
                 /\ roa' = new("roa", roa)
                 /\ operating_income' = new("operating_income",
                                            operating_income)
                 /\ ppe_net' = new("ppe_net", ppe_net)
                 /\ revenue' = new("revenue", revenue)
                 /\ cost_of_goods_sold' = new("cost_of_goods_sold",
                                              cost_of_goods_sold)
                 /\ enterprise_value' = new("enterprise_value",
                                            enterprise_value)
                 /\ UNCHANGED period_dates
       \/ /\ Len(period_dates) > 1
          /\ period_dates' = Front(period_dates)
          /\ prices' = Front(prices)
          /\ dividends' = Front(dividends)
          /\ roa' = Front(roa)
          /\ operating_income' = Front(operating_income)
          /\ ppe_net' = Front(ppe_net)
          /\ revenue' = Front(revenue)
          /\ cost_of_goods_sold' = Front(cost_of_goods_sold)
          /\ enterprise_value' = Front(enterprise_value)
    /\ saved' = [inputs |-> inputs, quarterly_data |-> quarterly_data]
    /\ run' = 2
    /\ pc' = "build"
    /\ UNCHANGED <<quarterly_data, batch_quarterly, poolvars, corrvars,
                   allvars, raised, savevars>>

NextLocal == BuildQuarterly \/ ForwardReturns \/ Ttm \/ CallAgain

SpecLocal == InitLocal /\ [][NextLocal]_vars

(***************************************************************************)
(* get_metrics.save_metrics_to_json and get_data.save_to_json.             *)
(***************************************************************************)
\* The JSON texts json.dump writes for a value: null, a number, a string
JsonNull == [json |-> "null"]

JsonNumber(v) == [json |-> "number", value |-> v]

JsonString(v) == [json |-> "string", value |-> v]

\* A value json.dump has no text for (a complex number): TypeError
NotJson == [json |-> "TypeError"]

\* Faulty variant: a value of 0 is written as null ("value or None")
ToJsonFalsyNull(v) ==
    CASE v.tag = "null" -> JsonNull
      [] v.tag = "num" -> IF v.n = 0 THEN JsonNull ELSE JsonNumber(v)
      [] v.tag = "root" -> IF v.n >= 0 THEN JsonNumber(v) ELSE NotJson
      [] OTHER -> JsonString(v)

\* What json.dump writes for the value of a field
ToJson(v) ==
    CASE v.tag = "null" -> JsonNull
      [] v.tag = "num" -> JsonNumber(v)
      [] v.tag = "root" -> IF v.n >= 0 THEN JsonNumber(v) ELSE NotJson
      [] OTHER -> JsonString(v)

\* The keys of output_entry in save_metrics_to_json, "period" apart
MetricsFields ==
    {"total_return", "forward_return", "forward_return_1y",
     "forward_return_3y", "forward_return_5y", "forward_return_10y", "roa",
     "ebit_ppe", "ebit_ppe_ttm", "gross_margin", "operating_margin",
     "ev_ebit"}

\* The keys of output_entry in save_to_json, "period" apart
DataFields == {"total_return", "forward_return", "roa"}

\* output_entry: the fields of the entry, each under its own key
OutputEntry(entry, fields) ==
    [f \in fields \cup {"period"} |->
        IF f = "period" THEN JsonString(entry.period) ELSE ToJson(entry[f])]

\* output_data: one output_stock per stock, one output_entry per entry
OutputData(all_data, fields) ==
    [s \in 1..Len(all_data) |->
        [symbol |-> ToJson(all_data[s].symbol),
         company_name |-> ToJson(all_data[s].company_name),
         data |-> [j \in 1..Len(all_data[s].data) |->
                      OutputEntry(all_data[s].data[j], fields)]]]

\* A file json.dump left unfinished
Unfinished == [json |-> "unfinished"]

\* json.dump(output_data, f): the file, unfinished when a value has no text
\* (the except clause prints the error)
Dump(output_data) ==
    IF \E s \in 1..Len(output_data) :
          \E j \in 1..Len(output_data[s].data) :
             \E f \in DOMAIN output_data[s].data[j] :
                output_data[s].data[j][f] = NotJson
    THEN Unfinished
    ELSE output_data

\* The one company whose series the producers hand to the savers
OneCompany(series) ==
    <<[symbol |-> Sym(1), company_name |-> Sym(2), data |-> series]>>

\* Series of one or two quarters, single quarters with every ratio operand,
\* and several quarters of ratio arrays
InitSave ==
    /\ InitShort \/ InitPoint \/ InitRatio
    /\ NoOutput
    /\ Idle
    /\ pc = "build"

\* get_metrics.save_metrics_to_json
SaveMetricsToJson ==
    /\ pc = "done"
    /\ metrics_json' = Dump(OutputData(OneCompany(quarterly_data),
                                       MetricsFields))
    /\ pc' = "metrics_saved"
    /\ UNCHANGED <<inputs, quarterly_data, batch_quarterly, poolvars,
                   corrvars, allvars, runvars, raised, data_json>>

\* get_data.save_to_json
SaveToJson ==
    /\ pc = "metrics_saved"
    /\ data_json' = Dump(OutputData(OneCompany(batch_quarterly), DataFields))
    /\ pc' = "saved"
    /\ UNCHANGED <<inputs, quarterly_data, batch_quarterly, poolvars,
                   corrvars, allvars, runvars, raised, metrics_json>>

NextSave ==
    \/ BuildQuarterly \/ ForwardReturns \/ Ttm \/ BatchBuild \/ BatchForward
    \/ SaveMetricsToJson \/ SaveToJson

SpecSave == InitSave /\ [][NextSave]_vars

(***************************************************************************)
(* Properties.                                                             *)
(***************************************************************************)
\* The first loop of extract_quarterly_data has run
Built == pc \in {"forward", "ttm", "batch_build", "batch_forward", "done"}

\* The second loop of extract_quarterly_data has run
Forwarded == pc \in {"ttm", "batch_build", "batch_forward", "done"}

\* The third loop of extract_quarterly_data has run
TtmDone == pc \in {"batch_build", "batch_forward", "done"}

Indices == 0..(Len(quarterly_data) - 1)

\* price[j], a null or out-of-range price counting as 0
ClaimPrice(j) ==
    IF j >= 0 /\ j < Len(prices) /\ prices[j + 1] # Null
    THEN prices[j + 1] ELSE Num(0)

\* dividend[j], a null or out-of-range dividend counting as 0
ClaimDividend(j) ==
    IF j >= 0 /\ j < Len(dividends) /\ dividends[j + 1] # Null
    THEN dividends[j + 1] ELSE Num(0)

\* C1: total_return[j] is null if and only if j = 0 or price[j-1] <= 0 or
\* price[j] <= 0, a null or out-of-range price counting as 0.
C1_TotalReturnNullIff ==
    Built =>
        \A j \in Indices :
            (At(quarterly_data, j).total_return = Null)
            <=> (j = 0 \/ ClaimPrice(j - 1).n <= 0 \/ ClaimPrice(j).n <= 0)

\* A quarter after the first whose return is missing only because its own
\* price is negative, the previous price being positive.
C1_Witness ==
    /\ Built
    /\ \E j \in Indices :
          /\ j > 0
          /\ ClaimPrice(j - 1).n > 0
          /\ ClaimPrice(j).n < 0
          /\ At(quarterly_data, j).total_return = Null

\* C2: for j > 0 with both adjacent prices positive, total_return[j] is
\* ((price[j] - price[j-1] + dividend[j]) / price[j-1]) * 100 with the
\* dividend of quarter j, a null or out-of-range dividend counting as 0.
C2_TotalReturnValue ==
    Built =>
        \A j \in Indices :
            (j > 0 /\ ClaimPrice(j - 1).n > 0 /\ ClaimPrice(j).n > 0)
            => LET p0 == ClaimPrice(j - 1)
                   p1 == ClaimPrice(j)
                   dv == ClaimDividend(j)
               IN  At(quarterly_data, j).total_return
                   = Rat(100 * (p1.n * p0.d * dv.d - p0.n * p1.d * dv.d
                                + dv.n * p0.d * p1.d) * p0.d,
                         p1.d * p0.d * dv.d * p0.n)

\* A quarter whose return counts a dividend of its own, after a quarter
\* without one, with different prices.
C2_Witness ==
    /\ Built
    /\ \E j \in Indices :
          /\ j > 0
          /\ ClaimPrice(j - 1).n > 0 /\ ClaimPrice(j).n > 0
          /\ ClaimPrice(j - 1) # ClaimPrice(j)
          /\ ClaimDividend(j).n > 0
          /\ ClaimDividend(j - 1).n = 0
          /\ At(quarterly_data, j).total_return
             = Rat(100 * (ClaimPrice(j).n - ClaimPrice(j - 1).n
                          + ClaimDividend(j).n), ClaimPrice(j - 1).n)

\* total_return[k] as stored by the first loop
ClaimTR(k) == quarterly_data[k + 1].total_return

\* No total_return of the window lo..hi is null
ClaimWindowKnown(lo, hi) == \A k \in lo..hi : ClaimTR(k) # Null

\* The product over k in lo..hi of (1 + total_return[k] / 100)
RECURSIVE ClaimProduct(_, _)
ClaimProduct(lo, hi) ==
    IF hi < lo THEN Num(1)
    ELSE IF lo = hi
    THEN LET r == ClaimTR(lo) IN Rat(100 * r.d + r.n, 100 * r.d)
    ELSE LET mid == (lo + hi) \div 2
             a == ClaimProduct(lo, mid)
             b == ClaimProduct(mid + 1, hi)
         IN  Rat(a.n * b.n, a.d * b.d)

\* (growth ^ (1 / years) - 1) * 100 with years = q / 4
ClaimAnnualized(growth, q) ==
    LET g == growth.n
        h == growth.d
    IN  CASE q = 4 -> Rat(100 * (g - h), h)
          [] q = 2 -> Rat(100 * (g * g - h * h), h * h)
          [] q = 1 -> Rat(100 * (g * g * g * g - h * h * h * h), h * h * h * h)
          [] OTHER -> [tag |-> "root", n |-> g, d |-> h, q |-> q]

\* The fixed horizons in quarters
ClaimHorizons == {4, 12, 20, 40}

\* forward_return_H[j] for a fixed horizon H
ClaimFixed(j, H) ==
    CASE H = 4  -> quarterly_data[j + 1].forward_return_1y
      [] H = 12 -> quarterly_data[j + 1].forward_return_3y
      [] H = 20 -> quarterly_data[j + 1].forward_return_5y
      [] H = 40 -> quarterly_data[j + 1].forward_return_10y

\* C3: for each fixed horizon H in {4, 12, 20, 40}, forward_return_H[j] is
\* non-null if and only if j + H < n and total_return[k] is non-null for
\* every k in j+1..j+H.
C3_FixedHorizonAllOrNothing ==
    Forwarded =>
        \A j \in Indices : \A H \in ClaimHorizons :
            (ClaimFixed(j, H) # Null)
            <=> (j + H < Len(quarterly_data) /\ ClaimWindowKnown(j + 1, j + H))

\* A series with a 10-year forward return at one index and, at another
\* index with 40 later quarters, none because of a single null total_return.
C3_Witness ==
    /\ Forwarded
    /\ \E j \in Indices : ClaimFixed(j, 40) # Null
    /\ \E j \in Indices :
          /\ j + 40 < Len(quarterly_data)
          /\ Cardinality({k \in (j + 1)..(j + 40) : ClaimTR(k) = Null}) = 1
          /\ ClaimFixed(j, 40) = Null

\* C4: the open-horizon forward_return[j] is non-null if and only if
\* j < n-1 and total_return[k] is non-null for every k in j+1..n-1; when
\* non-null it is annualized over n-1-j quarters; at the last index it is
\* null.
C4_OpenHorizon ==
    Forwarded =>
        LET n == Len(quarterly_data)
        IN  \A j \in Indices :
               /\ (quarterly_data[j + 1].forward_return # Null)
                  <=> (j < n - 1 /\ ClaimWindowKnown(j + 1, n - 1))
               /\ quarterly_data[j + 1].forward_return # Null
                  => quarterly_data[j + 1].forward_return
                     = ClaimAnnualized(ClaimProduct(j + 1, n - 1), n - 1 - j)
               /\ j = n - 1 => quarterly_data[j + 1].forward_return = Null

\* A series with an open-horizon return over at least three quarters whose
\* growth is not 1, and an earlier index without one.
C4_Witness ==
    /\ Forwarded
    /\ \E j \in Indices :
          /\ Len(quarterly_data) - 1 - j >= 3
          /\ quarterly_data[j + 1].forward_return # Null
          /\ ClaimProduct(j + 1, Len(quarterly_data) - 1) # Num(1)
    /\ \E j \in Indices :
          /\ j < Len(quarterly_data) - 1
          /\ quarterly_data[j + 1].forward_return = Null

\* C5 as stated: with n >= 2 and a non-null last total_return, the
\* open-horizon forward_return at n-2 equals total_return[n-1].
C5_AsStated ==
    Forwarded =>
        LET n == Len(quarterly_data)
        IN  (n >= 2 /\ ClaimTR(n - 1) # Null)
            => quarterly_data[n - 1].forward_return = ClaimTR(n - 1)

\* C5 amended: with n >= 2 and a non-null last total_return r, the
\* open-horizon forward_return at n-2 is r annualized over a quarter of a
\* year, ((1 + r/100) ^ 4 - 1) * 100.
C5_AnnualizedQuarter ==
    Forwarded =>
        LET n == Len(quarterly_data)
        IN  (n >= 2 /\ ClaimTR(n - 1) # Null)
            => LET r == ClaimTR(n - 1)
                   g == Rat(100 * r.d + r.n, 100 * r.d)
               IN  quarterly_data[n - 1].forward_return
                   = Mul(Sub(Mul(Mul(g, g), Mul(g, g)), Num(1)), Num(100))

\* A series whose last total_return is 100 and whose forward_return at the
\* second-to-last index is 1500.
C5_Witness ==
    /\ Forwarded
    /\ Len(quarterly_data) >= 2
    /\ ClaimTR(Len(quarterly_data) - 1) = Num(100)
    /\ quarterly_data[Len(quarterly_data) - 1].forward_return = Num(1500)

\* C6: a non-null forward return is ((V/100) ^ (1/years) - 1) * 100 with
\* V = 100 * the product over the window of (1 + total_return[k]/100) and
\* years = (quarters compounded) / 4; forward_return_1y[j] equals V - 100.
C6_CompoundAndAnnualize ==
    Forwarded =>
        LET n == Len(quarterly_data)
        IN  \A j \in Indices :
               /\ \A H \in ClaimHorizons :
                     ClaimFixed(j, H) # Null
                     => ClaimFixed(j, H)
                        = ClaimAnnualized(ClaimProduct(j + 1, j + H), H)
               /\ quarterly_data[j + 1].forward_return # Null
                  => quarterly_data[j + 1].forward_return
                     = ClaimAnnualized(ClaimProduct(j + 1, n - 1), n - 1 - j)
               /\ ClaimFixed(j, 4) # Null
                  => LET V == Mul(Num(100), ClaimProduct(j + 1, j + 4))
                     IN  ClaimFixed(j, 4) = Sub(V, Num(100))

\* A series with a 1-year forward return over a window holding a dividend,
\* whose growth is neither 1 nor that of the prices alone, and with a
\* 3-year forward return.
C6_Witness ==
    /\ Forwarded
    /\ \E j \in Indices :
          /\ ClaimFixed(j, 4) # Null
          /\ ClaimFixed(j, 4) # Num(0)
          /\ \E k \in (j + 1)..(j + 4) : ClaimDividend(k).n > 0
          /\ ClaimFixed(j, 4)
             # Mul(Sub(Div(ClaimPrice(j + 4), ClaimPrice(j)), Num(1)), Num(100))
    /\ \E j \in Indices : ClaimFixed(j, 12) # Null

\* C7: process_batch_data assigns forward_return[j] the same annualized
\* value as extract_quarterly_data, at every index j.
C7_SameForwardReturn ==
    pc = "done" =>
        \A j \in Indices :
            batch_quarterly[j + 1].forward_return
            = quarterly_data[j + 1].forward_return

\* arr[k] is in range and non-null
ClaimPresent(arr, k) == k >= 0 /\ k < Len(arr) /\ arr[k + 1] # Null

\* arr[j-3] + arr[j-2] + arr[j-1] + arr[j]
ClaimSum4(arr, j) ==
    LET a == arr[j - 2]
        b == arr[j - 1]
        c == arr[j]
        e == arr[j + 1]
    IN  Rat(a.n * b.d * c.d * e.d + b.n * a.d * c.d * e.d
            + c.n * a.d * b.d * e.d + e.n * a.d * b.d * c.d,
            a.d * b.d * c.d * e.d)

\* x / y for y # 0
ClaimQuotient(x, y) == Rat(x.n * y.d, x.d * y.n)

\* C8: ebit_ppe_ttm[j] is null if j < 3, or if any of operating_income[j-3..j],
\* ppe_net[j-3..j] is null or beyond the end of its array, or if the four
\* ppe_net values sum to 0; otherwise it is
\* sum(operating_income[j-3..j]) / sum(ppe_net[j-3..j]).
C8_TtmRatio ==
    TtmDone =>
        \A j \in Indices :
            LET complete == /\ j >= 3
                            /\ \A k \in (j - 3)..j :
                                  /\ ClaimPresent(operating_income, k)
                                  /\ ClaimPresent(ppe_net, k)
            IN  IF complete /\ ClaimSum4(ppe_net, j).n # 0
                THEN quarterly_data[j + 1].ebit_ppe_ttm
                     = ClaimQuotient(ClaimSum4(operating_income, j),
                                     ClaimSum4(ppe_net, j))
                ELSE quarterly_data[j + 1].ebit_ppe_ttm = Null

\* A series with a trailing ratio that differs from the quarterly ratio, and
\* a quarter whose eight operands are present but whose ppe_net sum is 0.
C8_Witness ==
    /\ TtmDone
    /\ \E j \in Indices :
          /\ quarterly_data[j + 1].ebit_ppe_ttm # Null
          /\ quarterly_data[j + 1].ebit_ppe_ttm # quarterly_data[j + 1].ebit_ppe
    /\ \E j \in Indices :
          /\ j >= 3
          /\ \A k \in (j - 3)..j : /\ ClaimPresent(operating_income, k)
                                   /\ ClaimPresent(ppe_net, k)
          /\ ClaimSum4(ppe_net, j).n = 0
          /\ quarterly_data[j + 1].ebit_ppe_ttm = Null

\* The ratio field is non-null exactly when both operands are present at j
\* and the denominator is not 0, and is then the numerator over it
ClaimRatioIs(field, j, numer, arrA, arrB, denom) ==
    IF ClaimPresent(arrA, j) /\ ClaimPresent(arrB, j) /\ denom[j + 1].n # 0
    THEN field = ClaimQuotient(numer, denom[j + 1])
    ELSE field = Null

\* C9: each point-in-time ratio (ebit_ppe, gross_margin, operating_margin,
\* ev_ebit) is non-null if and only if both of its operands at j are present
\* and its denominator is not 0, and then equals the quotient; no sign check
\* is applied.
C9_PointInTimeRatios ==
    Built =>
        \A j \in Indices :
            /\ ClaimRatioIs(quarterly_data[j + 1].ebit_ppe, j,
                            operating_income[j + 1],
                            operating_income, ppe_net, ppe_net)
            /\ ClaimRatioIs(quarterly_data[j + 1].gross_margin, j,
                            Sub(revenue[j + 1], cost_of_goods_sold[j + 1]),
                            revenue, cost_of_goods_sold, revenue)
            /\ ClaimRatioIs(quarterly_data[j + 1].operating_margin, j,
                            operating_income[j + 1],
                            operating_income, revenue, revenue)
            /\ ClaimRatioIs(quarterly_data[j + 1].ev_ebit, j,
                            enterprise_value[j + 1],
                            enterprise_value, operating_income,
                            operating_income)

\* A quarter with a negative enterprise value and a reported negative
\* ev_ebit, whose other three ratios are reported too.
C9_Witness ==
    /\ Built
    /\ \E j \in Indices :
          /\ ClaimPresent(enterprise_value, j)
          /\ enterprise_value[j + 1].n < 0
          /\ quarterly_data[j + 1].ev_ebit # Null
          /\ quarterly_data[j + 1].ev_ebit.n < 0
          /\ quarterly_data[j + 1].ebit_ppe # Null
          /\ quarterly_data[j + 1].gross_margin # Null
          /\ quarterly_data[j + 1].operating_margin # Null

\* The entries of the first i stocks, in traversal order
RECURSIVE ClaimFlat(_)
ClaimFlat(i) == IF i = 0 THEN <<>> ELSE ClaimFlat(i - 1) \o pool_data[i].data

\* Both values are present, non-null and numeric
ClaimBothNumeric(e) == e.roa.tag = "num" /\ e.forward_return.tag = "num"

ClaimPerms(n) == {f \in [1..n -> 1..n] : \A a, b \in 1..n : f[a] = f[b] => a = b}

\* The sequence s rearranged by the permutation f
ClaimPermute(s, f) == [i \in 1..Len(s) |-> s[f[i]]]

\* The list of pairs (roa, forward_return) of two parallel lists
ClaimPairs(rs, fs) == [i \in 1..Len(rs) |-> <<rs[i], fs[i]>>]

\* How often the value x occurs in the sequence s
ClaimCount(s, x) == Cardinality({i \in 1..Len(s) : s[i] = x})

\* Two sequences hold the same values the same number of times
ClaimSameBag(s, t) ==
    /\ Len(s) = Len(t)
    /\ \A i \in 1..Len(s) : ClaimCount(s, s[i]) = ClaimCount(t, s[i])

\* The rearrangements of the two stocks of pool_data: the stocks in either
\* order, the entries of each stock in any order
ClaimRearranged ==
    {ClaimPermute(<< [data |-> ClaimPermute(pool_data[1].data, g1)],
                     [data |-> ClaimPermute(pool_data[2].data, g2)] >>, f) :
        f \in ClaimPerms(2),
        g1 \in ClaimPerms(Len(pool_data[1].data)),
        g2 \in ClaimPerms(Len(pool_data[2].data))}

\* C11: for every permutation of the company list and of the entries inside
\* a company, extract_roa_forward_return_pairs returns the same multiset of
\* (roa, forward_return) pairs, so the same number of pairs, as it returned
\* for the data in the given order.
C11_OrderIndependent ==
    pc = "pool_done" =>
        \A data \in ClaimRearranged :
            LET w == ExtractPairs(data)
            IN  /\ Len(w.roa_values) = Len(w.forward_return_values)
                /\ ClaimSameBag(ClaimPairs(roa_values, forward_return_values),
                                ClaimPairs(w.roa_values,
                                           w.forward_return_values))

\* Two different pairs returned from two stocks, the first stock starting
\* with an entry that is dropped and going on with one that is kept.
C11_Witness ==
    /\ pc = "pool_done"
    /\ Len(pool_data[1].data) = 2
    /\ Len(pool_data[2].data) = 1
    /\ ~ClaimBothNumeric(pool_data[1].data[1])
    /\ Len(roa_values) = 2
    /\ <<roa_values[1], forward_return_values[1]>>
          # <<roa_values[2], forward_return_values[2]>>

\* calculate_correlations has been entered and has passed its first check
ClaimEntered == pc \in {"corr_raised", "corr_returned", "corr_assert",
                        "corr_stats"}

\* C12: called with lists of different lengths, calculate_correlations
\* raises ValueError and returns no report, whatever the two lengths are,
\* lengths below 2 included: the length check comes before the check for
\* too few points.
C12_MismatchRaises ==
    (ClaimEntered /\ Len(roa_values) # Len(forward_return_values)) =>
        /\ pc = "corr_raised"
        /\ raised = "ValueError"
        /\ report = Null

\* ValueError raised for an empty list and a list of one value.
C12_Witness ==
    /\ pc = "corr_raised"
    /\ raised = "ValueError"
    /\ Len(roa_values) = 0
    /\ Len(forward_return_values) = 1

\* C13: called with lists of the same length below 2, calculate_correlations
\* does not raise: it returns a dict whose n_pairs is that length, whose
\* correlations and p-values are all null, whose rank arrays are empty and
\* which carries an error text.
C13_InsufficientReport ==
    (/\ ClaimEntered
     /\ Len(roa_values) = Len(forward_return_values)
     /\ Len(roa_values) < 2) =>
        /\ pc = "corr_returned"
        /\ raised = "none"
        /\ report # Null
        /\ DOMAIN report = {"n_pairs", "pearson_correlation",
                            "pearson_pvalue", "ranked_correlation",
                            "ranked_pvalue", "spearman_correlation",
                            "spearman_pvalue", "roa_ranks",
                            "forward_return_ranks", "error"}
        /\ report.n_pairs = Len(roa_values)
        /\ \A f \in {"pearson_correlation", "pearson_pvalue",
                      "ranked_correlation", "ranked_pvalue",
                      "spearman_correlation", "spearman_pvalue"} :
              report[f] = Null
        /\ report.roa_ranks = <<>>
        /\ report.forward_return_ranks = <<>>

\* The report returned for one value in each list.
C13_Witness ==
    /\ pc = "corr_returned"
    /\ Len(roa_values) = 1
    /\ Len(forward_return_values) = 1
    /\ report # Null
    /\ report.n_pairs = 1

\* C14: for lists of the same length n >= 2, ties included, the smallest
\* average rank is 1 and the largest is n in both rank arrays, so neither
\* assert statement of calculate_correlations fails.
C14_AssertionsHold ==
    (/\ ClaimEntered
     /\ Len(roa_values) = Len(forward_return_values)
     /\ Len(roa_values) >= 2) =>
        /\ RanksSpan(roa_ranks, Len(roa_values))
        /\ RanksSpan(forward_return_ranks, Len(forward_return_values))
        /\ raised # "AssertionError"

\* Every value of the list is the same
ClaimConstant(xs) == \A i \in 1..Len(xs) : xs[i] = xs[1]

\* C15: when one list has zero variance (X = [1, 1, 1], Y = [1, 2, 3]) each
\* of its values gets the average rank (n + 1) / 2 and the call completes
\* without raising: it returns a report whose correlation on that list is
\* nan.
C15_ZeroVarianceCompletes ==
    (/\ pc \in {"corr_raised", "corr_returned"}
     /\ Len(roa_values) = Len(forward_return_values)
     /\ Len(roa_values) >= 2
     /\ ClaimConstant(roa_values)) =>
        /\ \A i \in 1..Len(roa_ranks) :
              roa_ranks[i] = Rat(Len(roa_values) + 1, 2)
        /\ raised = "none"
        /\ report # Null
        /\ report.ranked_correlation = NaN

\* C17: whatever the shape of each record, calculate_metrics_for_all_stocks
\* visits every record of its list and returns: no exception leaves it, and
\* every record is counted as processed, skipped or an error.
C17_EveryRecordVisited ==
    pc \in {"all_done", "all_raised"} =>
        /\ raised = "none"
        /\ stock_i = Len(stocks)
        /\ stats.processed + stats.skipped + stats.errors = Len(stocks)
        /\ Len(results) = stats.processed

\* A non-empty list
ClaimNonEmptyList(v) == v.tag = "list" /\ Len(v.items) > 0

\* A value that is present and not empty
ClaimNonEmpty(v) == v \notin {Absent, Null, List(<<>>)}

\* The record is empty or has no "data" key
ClaimNoData(sd) ==
    (sd.symbol = Absent /\ sd.company_name = Absent /\ sd.data = Absent)
    \/ sd.data = Absent

\* period_end_price is missing, empty or not a list
ClaimNoPrices(sd) == ~ClaimNonEmptyList(sd.data.period_end_price)

\* The condition C18 gives for None
ClaimNoneAsStated(sd) ==
    \/ ClaimNoData(sd)
    \/ \A k \in 1..3 : ~ClaimNonEmptyList(sd.data[DateKeys[k]])
    \/ ClaimNoPrices(sd)

\* The candidate date keys that hold a non-empty value
ClaimDated(sd) == {k \in 1..3 : ClaimNonEmpty(sd.data[DateKeys[k]])}

\* The first of them
ClaimFirstDated(sd) == CHOOSE k \in ClaimDated(sd) : \A o \in ClaimDated(sd) : k <= o

\* None: no data, no date key with a non-empty value, a first such value
\* that is not a list, or no usable prices
ClaimNoneFirstKey(sd) ==
    \/ ClaimNoData(sd)
    \/ ClaimDated(sd) = {}
    \/ ~ClaimNonEmptyList(sd.data[DateKeys[ClaimFirstDated(sd)]])
    \/ ClaimNoPrices(sd)

\* The records visited whose "data" is a dict or missing
ClaimVisited == {i \in 1..stock_i : stocks[i].tag = "dict" /\ stocks[i].data # Null}

RECURSIVE ClaimReturned(_)
ClaimReturned(i) ==
    IF i = 0 THEN <<>>
    ELSE IF i \in ClaimVisited /\ ~ClaimNoneFirstKey(stocks[i])
    THEN Append(ClaimReturned(i - 1), stocks[i])
    ELSE ClaimReturned(i - 1)

ClaimBeyond(arr, k) == k < 0 \/ k >= Len(arr)

\* The fields of entry j whose past or future data is not there are null
ClaimLackingIsNull(j) ==
    LET e == quarterly_data[j + 1]
        n == Len(quarterly_data)
    IN  /\ (j = 0 \/ ClaimBeyond(prices, j - 1) \/ ClaimBeyond(prices, j))
              => e.total_return = Null
        /\ ClaimBeyond(roa, j) => e.roa = Null
        /\ (ClaimBeyond(operating_income, j) \/ ClaimBeyond(ppe_net, j))
              => e.ebit_ppe = Null
        /\ (ClaimBeyond(revenue, j) \/ ClaimBeyond(cost_of_goods_sold, j))
              => e.gross_margin = Null
        /\ (ClaimBeyond(operating_income, j) \/ ClaimBeyond(revenue, j))
              => e.operating_margin = Null
        /\ (ClaimBeyond(enterprise_value, j)
             \/ ClaimBeyond(operating_income, j)) => e.ev_ebit = Null
        /\ j + 1 >= n => e.forward_return = Null
        /\ j + 4 >= n => e.forward_return_1y = Null
        /\ j + 12 >= n => e.forward_return_3y = Null
        /\ j + 20 >= n => e.forward_return_5y = Null
        /\ j + 40 >= n => e.forward_return_10y = Null
        /\ (\E k \in (j - 3)..j : ClaimBeyond(operating_income, k)
                                   \/ ClaimBeyond(ppe_net, k))
              => e.ebit_ppe_ttm = Null

\* C19: whatever the lengths of the raw arrays (shorter than, equal to or
\* longer than the date array, or missing), with null or numeric elements,
\* extract_quarterly_data evaluates no subscript outside an array and does
\* not raise, and every derived field whose past or future data is not
\* there is null.
C19_NoReadOutside ==
    /\ raised = "none"
    /\ pc # "raised"
    /\ TtmDone => \A j \in Indices : ClaimLackingIsNull(j)

\* Four quarters or more derived from a longer and a shorter array: the
\* last trailing sum lacks a value and is null.
C19_Witness ==
    /\ TtmDone
    /\ raised = "none"
    /\ Len(period_dates) >= 4
    /\ Len(operating_income) > Len(period_dates)
    /\ Len(ppe_net) > 0
    /\ Len(ppe_net) < Len(period_dates)
    /\ quarterly_data[Len(quarterly_data)].ebit_ppe_ttm = Null
    /\ quarterly_data[1].ebit_ppe # Null

\* The raw value of the array at index i, if it has one
ClaimValueAt(arr, i) == IF i < Len(arr) THEN arr[i + 1] ELSE Absent

\* The inputs of the two calls agree on every raw value at index i
ClaimAgreeAt(i) ==
    \A a \in 1..Len(inputs) :
        ClaimValueAt(saved.inputs[a], i) = ClaimValueAt(inputs[a], i)

\* The inputs of the two calls have the same lengths
ClaimSameLengths ==
    \A a \in 1..Len(inputs) : Len(saved.inputs[a]) = Len(inputs[a])

\* The length of the longest array of the second call
ClaimLongest ==
    CHOOSE n \in {Len(inputs[a]) : a \in 1..Len(inputs)} :
        \A a \in 1..Len(inputs) : Len(inputs[a]) <= n

\* The fields that look back and the fields that look ahead
ClaimBackward ==
    {"total_return", "ebit_ppe", "gross_margin", "operating_margin",
     "ev_ebit", "ebit_ppe_ttm"}

ClaimForward ==
    {"forward_return", "forward_return_1y", "forward_return_3y",
     "forward_return_5y", "forward_return_10y"}

ClaimWrittenAs(written, v) ==
    /\ written = JsonNull <=> v = Null
    /\ written # JsonNull => written.value = v
    /\ v = Num(0) => written = JsonNumber(Num(0))

ClaimZeroRoa(e) == e.roa = Num(0) /\ e.forward_return.tag = "num"

ClaimReportFields ==
    {"n_pairs", "roa_mean", "roa_std", "roa_min", "roa_max",
     "forward_return_mean", "forward_return_std", "forward_return_min",
     "forward_return_max"}

\* C23: every report calculate_correlations returns, the report for fewer
\* than two pairs included, carries n_pairs and the mean, deviation, minimum
\* and maximum of both lists, and main followed by print_statistics ends
\* without an exception for every pooled sample of one pair or more.
C23_PipelineCompletes ==
    (/\ pc \in {"corr_returned", "main_done", "main_raised"}
     /\ Len(roa_values) >= 1) =>
        /\ ClaimReportFields \subseteq DOMAIN report
        /\ raised = "none"

\* extract_quarterly_data is in its loops for the record the caller is at
ClaimDeriving == stocks # <<>> /\ pc \in {"build", "forward", "ttm", "batch_build"}

\* The key is missing from the data, or its value is null or empty
ClaimAbsentOrEmpty(data, k) == data[DateKeys[k]] \in {Absent, Null, List(<<>>)}

\* C24: the period sequence extract_quarterly_data uses is the value of the
\* first of the keys period_end_date, fiscal_quarter_key,
\* original_filing_date that is present with a non-empty value; a later key
\* is used only when every earlier key is absent or empty.
C24_FirstDateKeyWins ==
    ClaimDeriving =>
        \E k \in 1..Len(DateKeys) :
            /\ ~ClaimAbsentOrEmpty(StockData.data, k)
            /\ IsList(StockData.data[DateKeys[k]])
            /\ period_dates = StockData.data[DateKeys[k]].items
            /\ \A earlier \in 1..(k - 1) :
                  ClaimAbsentOrEmpty(StockData.data, earlier)

\* The periods of fiscal_quarter_key in use: period_end_date is empty and
\* original_filing_date holds other periods.
C24_Witness ==
    /\ ClaimDeriving
    /\ pc = "batch_build"
    /\ StockData.data.period_end_date = List(<<>>)
    /\ ClaimNonEmptyList(StockData.data.fiscal_quarter_key)
    /\ ClaimNonEmptyList(StockData.data.original_filing_date)
    /\ period_dates = StockData.data.fiscal_quarter_key.items
    /\ period_dates # StockData.data.original_filing_date.items

\* C25: the series of extract_quarterly_data has exactly one entry per
\* element of the date array, in the same order (entry j has period =
\* period_dates[j]), whatever the lengths of the other arrays; no entry is
\* dropped, reordered or duplicated, by the first loop or by the two loops
\* that follow it.
C25_OneEntryPerDate ==
    Built =>
        /\ Len(quarterly_data) = Len(period_dates)
        /\ \A j \in Indices : quarterly_data[j + 1].period = period_dates[j + 1]

\* A finished series of several quarters from arrays both longer and
\* shorter than the date array
C25_Witness ==
    /\ TtmDone
    /\ Len(period_dates) >= 2
    /\ Len(operating_income) > Len(period_dates)
    /\ Len(ppe_net) < Len(period_dates)
    /\ Len(quarterly_data) = Len(period_dates)
    /\ \A j \in Indices : quarterly_data[j + 1].period = period_dates[j + 1]

\* The same with fewer prices than dates
ClaimShortPricesKept ==
    /\ TtmDone
    /\ Len(prices) < Len(period_dates)
    /\ Len(quarterly_data) = Len(period_dates)

\* A record that extract_quarterly_data turns into a series
ClaimProcessed(stock_data) ==
    stock_data.tag = "dict" /\ Prologue(stock_data) = "derive"

\* The records among the first k of the input that get a series, in input order
ClaimKept(k) == SelectSeq(SubSeq(stocks, 1, k), ClaimProcessed)

RECURSIVE ClaimTotal(_)
ClaimTotal(counts) ==
    IF counts = <<>> THEN 0 ELSE Head(counts) + ClaimTotal(Tail(counts))

\* C26: after every iteration of the loop of calculate_metrics_for_all_stocks
\* and after its return, processed + skipped + errors is the number of
\* records visited (total_stocks at the return), len(results) = processed,
\* results holds the successfully processed companies in input order, and
\* total_quarters is the sum of quarters_per_stock.
C26_CountersAddUp ==
    pc \in {"all", "all_done"} =>
        /\ stats.processed + stats.skipped + stats.errors = stock_i
        /\ pc = "all_done" => stock_i = stats.total_stocks
        /\ stats.total_stocks = Len(stocks)
        /\ Len(results) = stats.processed
        /\ Len(results) = Len(ClaimKept(stock_i))
        /\ \A i \in 1..Len(results) :
              /\ results[i].symbol = Symbol(ClaimKept(stock_i)[i])
              /\ results[i].company_name = CompanyName(ClaimKept(stock_i)[i])
              /\ Len(results[i].data)
                     = Len(FirstDates(ClaimKept(stock_i)[i].data, 1).items)
        /\ Len(stats.quarters_per_stock) = stats.processed
        /\ \A i \in 1..Len(results) :
              stats.quarters_per_stock[i] = Len(results[i].data)
        /\ stats.total_quarters = ClaimTotal(stats.quarters_per_stock)

\* A returned call on three records: two companies processed, the one of two
\* quarters before the one of one quarter, and one record skipped or in error
C26_Witness ==
    /\ pc = "all_done"
    /\ Len(stocks) = 3
    /\ stats.processed = 2
    /\ stats.skipped + stats.errors = 1
    /\ Len(results) = 2
    /\ Len(results[1].data) = 2
    /\ Len(results[2].data) = 1
    /\ results[1].symbol # results[2].symbol
    /\ stats.quarters_per_stock = <<2, 1>>
    /\ stats.total_quarters = 3

\* No dividend of the input is negative
ClaimDividendsNonNegative ==
    \A i \in 1..Len(dividends) : dividends[i] = Null \/ dividends[i].n >= 0

\* 1 + cumulative_return / 100 for the running value of a walk
ClaimBase(cumulative_value) ==
    Add(Num(1), Div(Sub(cumulative_value, Num(100)), Num(100)))

\* The walk from quarter j that is now at quarter k with the running value
\* w.cumulative_value: TRUE when every running value from here on is
\* strictly positive, and so is the base of the power wherever a fixed
\* horizon or the open horizon ends
RECURSIVE ClaimStaysPositive(_, _, _, _)
ClaimStaysPositive(qd, j, k, w) ==
    IF ~Gt0(w.cumulative_value) THEN FALSE
    ELSE IF k >= Len(qd) THEN TRUE
    ELSE LET period_return == At(qd, k).total_return
         IN  IF IsNone(period_return) THEN TRUE
             ELSE LET next == [w EXCEPT !.cumulative_value =
                                           Compound(@, period_return)]
                  IN  /\ (k - j \in ClaimHorizons \/ k = Len(qd) - 1)
                         => Gt0(ClaimBase(next.cumulative_value))
                      /\ ClaimStaysPositive(qd, j, k + 1, next)

\* The second loop of extract_quarterly_data has just run its walks
ClaimWalked == pc = "ttm"

\* C27: when no dividend is negative, every non-null total_return is
\* strictly greater than -100, the running compounded value of every
\* forward-return walk stays strictly positive, and the base
\* 1 + cumulative_return/100 of the annualization power is strictly
\* positive at every index and horizon.
C27_WalksStayPositive ==
    (ClaimWalked /\ ClaimDividendsNonNegative) =>
        \A j \in Indices :
            /\ ClaimTR(j) # Null => ClaimTR(j).n > -100 * ClaimTR(j).d
            /\ ClaimStaysPositive(quarterly_data, j, j + 1, WalkStart)

\* A series with a dividend, a negative total_return and forward returns
\* over ten years and over the open horizon
C27_Witness ==
    /\ ClaimWalked
    /\ ClaimDividendsNonNegative
    /\ \E i \in 1..Len(dividends) : dividends[i] # Null /\ dividends[i].n > 0
    /\ \E j \in Indices : ClaimTR(j) # Null /\ ClaimTR(j).n < 0
    /\ ClaimFixed(0, 40) # Null
    /\ quarterly_data[1].forward_return # Null

\* The open-horizon forward return of quarter j
ClaimOpen(j) == quarterly_data[j + 1].forward_return

\* C28: forward-return availability is suffix-closed and nested. In a
\* series of length n, a non-null open-horizon forward_return[j] makes
\* forward_return[k] non-null for every k in j..n-2 and every fixed-horizon
\* forward return at such k with k + H < n non-null; a non-null
\* forward_return_10y[j] makes forward_return_5y[j], forward_return_3y[j]
\* and forward_return_1y[j] non-null.
C28_SuffixClosedAndNested ==
    Forwarded =>
        LET n == Len(quarterly_data)
        IN  \A j \in Indices :
               /\ ClaimOpen(j) # Null =>
                     \A k \in j..(n - 2) :
                        /\ ClaimOpen(k) # Null
                        /\ \A H \in ClaimHorizons :
                              k + H < n => ClaimFixed(k, H) # Null
               /\ ClaimFixed(j, 40) # Null =>
                     /\ ClaimFixed(j, 20) # Null
                     /\ ClaimFixed(j, 12) # Null
                     /\ ClaimFixed(j, 4) # Null

\* A series whose open-horizon forward return is null at its first quarter
\* and available from a later quarter that has a 10-year forward return
C28_Witness ==
    /\ Forwarded
    /\ ClaimOpen(0) = Null
    /\ \E j \in Indices :
          /\ j > 0
          /\ ClaimOpen(j - 1) = Null
          /\ ClaimOpen(j) # Null
          /\ ClaimFixed(j, 40) # Null
          /\ ClaimFixed(j, 4) # Null

====
